---- MODULE Spec2Model ----
(***************************************************************************)
(* The authenticated API access layer of the BTG Pactual, Mercado Livre    *)
(* and MercadoPago extensions: the token managers (getToken with refresh   *)
(* deduplication), the login flows that install a token record, and the    *)
(* fetch clients (btgFetch, fetchMercadoLivre, fetchMercadoPago), and the  *)
(* CSV functions of the MercadoPago report tools (csv-parser.ts).          *)
(*                                                                         *)
(* The runtime is single-threaded: an action is one run-to-completion      *)
(* piece of a handler, from one suspension point (await) to the next.      *)
(* Strings are modelled as numbers: an access or refresh value is a        *)
(* positive number, 0 is the empty string or an absent field. The text the *)
(* CSV functions work on is a sequence of characters.                      *)
(***************************************************************************)
EXTENDS Integers, Sequences, FiniteSets, TLC

VARIABLES
  kind,            \* which extension this process runs: "btg", "ml" or "mp"
  clientId,        \* process.env.BTG_CLIENT_ID is set (BTG only)
  now,             \* Date.now(), in ms
  tokenState,      \* the token record, NULL or <<[access, refresh, expires]>>
  refreshPromise,  \* the pending-refresh handle, NULL or <<[id, st, err]>>
  refreshReqs,     \* refresh requests sent to the token endpoint, not yet handled
  issued,          \* number of token responses the identity provider has issued
  calls,           \* per tool execution: its position, token, result
  login,           \* the login run (device-code or authorization-code)
  csv              \* one call of a csv-parser function: its argument and result

vars == <<kind, clientId, now, tokenState, refreshPromise, refreshReqs,
          issued, calls, login, csv>>

\* ------------------------------------------------------------------ bounds

NCallers == 2
MaxTicks == 2
MaxIssued == 2
MaxPolls == 3
MaxLogins == 2
MaxValueLen == 4
MaxFields == 2
MaxLines == 2

Callers == 1..NCallers

\* ---------------------------------------------------------------- constants

BTG_REFRESH_BUFFER_MS == 15 * 60 * 1000
ML_REFRESH_BUFFER_MS == 5 * 60 * 1000
RETRY_ATTEMPTS == 3

\* expires_in values (seconds) a token response may carry.
ExpiresInValues == {0, 600, 1200}

NULL == <<>>

Kinds == {"btg", "ml", "mp"}

REFRESH_BUFFER_MS == IF kind = "btg" THEN BTG_REFRESH_BUFFER_MS ELSE ML_REFRESH_BUFFER_MS

\* ------------------------------------------------------------- tool calls

\* A tool execution (execute): const token = await getToken(); then the
\* fetch. idle -> waiting (on the refresh promise) | fetching | err,
\* fetching <-> backoff, fetching -> done | err.
IdleCall == [st |-> "idle", val |-> 0, err |-> "none", status |-> 0,
             pid |-> 0, attempt |-> 0, hdr |-> 0, retryAfter |-> 0, hintMs |-> 0,
             file |-> 0, downloads |-> 0, delayUs |-> 0, waitedUs |-> 0,
             result |-> "none", report_id |-> 0,
             offset |-> 0, pages |-> 0, counted |-> 0, pageLen |-> 0,
             pageTotal |-> 0, overlong |-> FALSE]

\* getToken returned the access value tok: the awaiting tool goes on into
\* its fetch, whose first request carries tok.
Got(tok) == [IdleCall EXCEPT !.st = "fetching", !.val = tok, !.attempt = 1]

\* getToken threw (or its promise rejected with) error e.
Threw(e) == [IdleCall EXCEPT !.st = "err", !.err = e]

\* getToken returned the pending refresh promise p: the caller awaits it.
Awaiting(p) == [IdleCall EXCEPT !.st = "waiting", !.pid = p]

\* The callers awaiting promise p receive its outcome.
Settle(cs, p, outcome) ==
  [c \in Callers |->
     IF cs[c].st = "waiting" /\ cs[c].pid = p THEN outcome ELSE cs[c]]

\* ----------------------------------------------------------- token manager

AccessOf(ts) == IF ts = NULL THEN 0 ELSE ts[1].access
RefreshOf(ts) == IF ts = NULL THEN 0 ELSE ts[1].refresh
ExpiresOf(ts) == IF ts = NULL THEN 0 ELSE ts[1].expires

\* A freshness test that subtracts the buffer twice.
BtgTokenFresh_DoubleBuffer ==
  tokenState # NULL /\ now < ExpiresOf(tokenState) - 2 * BTG_REFRESH_BUFFER_MS

\* tokenState && Date.now() < tokenState.expires - REFRESH_BUFFER_MS
BtgTokenFresh ==
  tokenState # NULL /\ now < ExpiresOf(tokenState) - BTG_REFRESH_BUFFER_MS

\* A test that looks at the refresh value of an existing record only.
BtgNotAuthenticated_RecordOnly == tokenState # NULL /\ RefreshOf(tokenState) = 0

\* !tokenState?.refresh
BtgNotAuthenticated == tokenState = NULL \/ RefreshOf(tokenState) = 0

\* The identity of the promise a new refresh creates: one that neither the
\* handle, nor a request, nor an awaiting caller refers to.
NewPromise ==
  LET PromisesInUse ==
        {r.pid : r \in refreshReqs} \cup {calls[c].pid : c \in Callers} \cup
        (IF refreshPromise = NULL THEN {} ELSE {refreshPromise[1].id})
  IN  CHOOSE i \in 1..(NCallers + 2) :
        /\ i \notin PromisesInUse
        /\ \A j \in 1..(i - 1) : j \in PromisesInUse

\* !refreshPromise
\* getClientId that returns whatever the environment holds.
getClientId_Unchecked == TRUE

\* getClientId returns (TRUE) or throws the configuration error (FALSE).
getClientId == clientId

NoRefreshPending == refreshPromise = NULL

\* The async function assigned to refreshPromise, up to its first await, and
\* the assignment. getClientId() is evaluated before refreshBtgOAuth is
\* called: when it throws, catch and finally run at once and the rejected
\* promise is what gets assigned.
BtgStartRefresh(c) ==
  /\ IF getClientId
     THEN /\ refreshReqs' = refreshReqs \cup
                 {[pid |-> NewPromise, refresh |-> RefreshOf(tokenState),
                   resp |-> NULL]}
          /\ refreshPromise' = <<[id |-> NewPromise, st |-> "pending", err |-> "none"]>>
          /\ calls' = [calls EXCEPT ![c] = Awaiting(NewPromise)]
          /\ UNCHANGED tokenState
     ELSE /\ tokenState' = NULL
          /\ refreshPromise' = <<[id |-> NewPromise, st |-> "rejected", err |-> "config"]>>
          /\ calls' = [calls EXCEPT ![c] = Threw("config")]
          /\ UNCHANGED refreshReqs

\* return refreshPromise, when a handle is already set.
JoinRefresh(c) ==
  /\ calls' = [calls EXCEPT ![c] =
                 IF refreshPromise[1].st = "pending"
                 THEN Awaiting(refreshPromise[1].id)
                 ELSE Threw(refreshPromise[1].err)]
  /\ UNCHANGED <<tokenState, refreshPromise, refreshReqs>>

\* BTG getToken (module-level tokenState and refreshPromise).
BtgGetToken(c) ==
  /\ kind = "btg"
  /\ calls[c].st = "idle"
  /\ IF BtgTokenFresh
     THEN /\ calls' = [calls EXCEPT ![c] = Got(AccessOf(tokenState))]
          /\ UNCHANGED <<tokenState, refreshPromise, refreshReqs>>
     ELSE IF BtgNotAuthenticated
     THEN /\ calls' = [calls EXCEPT ![c] = Threw("not_authenticated")]
          /\ UNCHANGED <<tokenState, refreshPromise, refreshReqs>>
     ELSE IF NoRefreshPending
     THEN BtgStartRefresh(c)
     ELSE JoinRefresh(c)
  /\ UNCHANGED <<csv, kind, clientId, now, issued, login>>

\* Date.now() < tokenState.expires - REFRESH_BUFFER_MS
MlTokenFresh == now < ExpiresOf(tokenState) - ML_REFRESH_BUFFER_MS

\* !tokenState
MlNotAuthenticated == tokenState = NULL

\* The Mercado Livre refresh: refreshToken(config, currentRefreshToken) sends
\* the request; there is no catch, only finally.
MlStartRefresh(c) ==
  /\ refreshReqs' = refreshReqs \cup
        {[pid |-> NewPromise, refresh |-> RefreshOf(tokenState), resp |-> NULL]}
  /\ refreshPromise' = <<[id |-> NewPromise, st |-> "pending", err |-> "none"]>>
  /\ calls' = [calls EXCEPT ![c] = Awaiting(NewPromise)]
  /\ UNCHANGED tokenState

\* createTokenManager(config).getToken
MlGetToken(c) ==
  /\ kind = "ml"
  /\ calls[c].st = "idle"
  /\ IF MlNotAuthenticated
     THEN /\ calls' = [calls EXCEPT ![c] = Threw("not_authenticated")]
          /\ UNCHANGED <<tokenState, refreshPromise, refreshReqs>>
     ELSE IF MlTokenFresh
     THEN /\ calls' = [calls EXCEPT ![c] = Got(AccessOf(tokenState))]
          /\ UNCHANGED <<tokenState, refreshPromise, refreshReqs>>
     ELSE IF NoRefreshPending
     THEN MlStartRefresh(c)
     ELSE JoinRefresh(c)
  /\ UNCHANGED <<csv, kind, clientId, now, issued, login>>

\* --------------------------------------------------------- token endpoint

\* What comes back for a token request: a 200 with a token payload, a
\* non-2xx status, or (where the request carries a timeout) the abort.
TokenPayload(a, rt, ein) ==
  [type |-> "ok", access_token |-> a, refresh_token |-> rt, expires_in |-> ein]

\* The token payloads the identity provider may issue next: a fresh access
\* token, with or without a new refresh token.
NextPayloads ==
  {TokenPayload(issued + 1, rt, ein) : rt \in {0, issued + 1}, ein \in ExpiresInValues}

\* The token endpoint answers a refresh request.
TokenEndpointAnswers(r) ==
  LET HttpError == [type |-> "http_error", access_token |-> 0,
                    refresh_token |-> 0, expires_in |-> 0]
  IN
  /\ r \in refreshReqs
  /\ r.resp = NULL
  /\ \/ /\ issued < MaxIssued
        /\ \E p \in NextPayloads :
             refreshReqs' = (refreshReqs \ {r}) \cup {[r EXCEPT !.resp = <<p>>]}
        /\ issued' = issued + 1
     \/ /\ refreshReqs' = (refreshReqs \ {r}) \cup {[r EXCEPT !.resp = <<HttpError>>]}
        /\ UNCHANGED issued
  /\ UNCHANGED <<csv, kind, clientId, now, tokenState, refreshPromise, calls, login>>

\* AbortSignal.timeout(15_000) fires on the Mercado Livre refresh request.
\* refreshBtgOAuth passes no signal to fetch.
RefreshHasTimeout == kind = "ml"

RefreshTimeout(r) ==
  LET Aborted == [type |-> "timeout", access_token |-> 0, refresh_token |-> 0,
                  expires_in |-> 0]
  IN
  /\ r \in refreshReqs
  /\ r.resp = NULL
  /\ RefreshHasTimeout
  /\ refreshReqs' = (refreshReqs \ {r}) \cup {[r EXCEPT !.resp = <<Aborted>>]}
  /\ UNCHANGED <<csv, kind, clientId, now, tokenState, refreshPromise, issued,
                 calls, login>>

\* refreshBtgOAuth's result for a 200: refresh_token || token.refresh.
BtgRefreshedToken(r, p) ==
  [access |-> p.access_token,
   refresh |-> IF p.refresh_token # 0 THEN p.refresh_token ELSE r.refresh,
   expires |-> now + p.expires_in * 1000]

\* The rest of the BTG refresh, once the response is in: try, catch, finally.
BtgRefreshSettle(r) ==
  /\ kind = "btg"
  /\ r \in refreshReqs
  /\ r.resp # NULL
  /\ refreshReqs' = refreshReqs \ {r}
  /\ refreshPromise' = NULL
  /\ IF r.resp[1].type = "ok"
     THEN /\ tokenState' = <<BtgRefreshedToken(r, r.resp[1])>>
          /\ calls' = Settle(calls, r.pid, Got(r.resp[1].access_token))
     ELSE /\ tokenState' = NULL
          /\ calls' = Settle(calls, r.pid, Threw("refresh_failed"))
  /\ UNCHANGED <<csv, kind, clientId, now, issued, login>>

\* TokenResponseSchema.parse: refresh_token is a required string, a payload
\* without it is rejected.
MlSchemaAccepts(p) == p.type = "ok" /\ p.refresh_token # 0

\* refreshToken's and exchangeCodeForTokens' result for a parsed 200.
MlTokenFrom(p) ==
  [access |-> p.access_token, refresh |-> p.refresh_token,
   expires |-> now + p.expires_in * 1000]

\* The rest of the Mercado Livre refresh: try, finally.
MlRefreshSettle(r) ==
  /\ kind = "ml"
  /\ r \in refreshReqs
  /\ r.resp # NULL
  /\ refreshReqs' = refreshReqs \ {r}
  /\ refreshPromise' = NULL
  /\ IF MlSchemaAccepts(r.resp[1])
     THEN /\ tokenState' = <<MlTokenFrom(r.resp[1])>>
          /\ calls' = Settle(calls, r.pid, Got(r.resp[1].access_token))
     ELSE /\ calls' = Settle(calls, r.pid,
                 Threw(IF r.resp[1].type = "timeout" THEN "timeout" ELSE "refresh_failed"))
          /\ UNCHANGED tokenState
  /\ UNCHANGED <<csv, kind, clientId, now, issued, login>>

\* A token whose expiry adds expires_in as if it were milliseconds.
BtgDeviceToken_Seconds(p) ==
  [access |-> p.access_token, refresh |-> p.refresh_token,
   expires |-> now + p.expires_in]

\* pollDeviceToken's token for a 200: refresh_token || "".
BtgDeviceToken(p) ==
  [access |-> p.access_token, refresh |-> p.refresh_token,
   expires |-> now + p.expires_in * 1000]

\* !tokenPayload.access_token || !tokenPayload.expires_in
BtgIncompletePayload(p) == p.access_token = 0 \/ p.expires_in = 0

\* A login run, as the token manager sees it: nothing of the run reads or
\* writes the token record before the assignment that ends it. A device-code
\* run started while BTG_CLIENT_ID was set ends with tokenState = token.
BtgLoginCompletes ==
  /\ kind = "btg"
  /\ issued < MaxIssued
  /\ issued' = issued + 1
  /\ \E p \in NextPayloads :
       /\ ~BtgIncompletePayload(p)
       /\ tokenState' = <<BtgDeviceToken(p)>>
  /\ UNCHANGED <<csv, kind, clientId, now, refreshPromise, refreshReqs, calls, login>>

\* An authorization-code run ends with tokenManager.setToken(tokenState).
MlLoginCompletes ==
  /\ kind = "ml"
  /\ issued < MaxIssued
  /\ issued' = issued + 1
  /\ \E p \in NextPayloads :
       /\ MlSchemaAccepts(p)
       /\ tokenState' = <<MlTokenFrom(p)>>
  /\ UNCHANGED <<csv, kind, clientId, now, refreshPromise, refreshReqs, calls, login>>

\* ------------------------------------------------------------- environment

\* Wall-clock time passes.
Tick ==
  LET
      \* Time advances in steps of five minutes.
      TickMs == 5 * 60 * 1000
  IN
  /\ now < MaxTicks * TickMs
  /\ now' = now + TickMs
  /\ UNCHANGED <<csv, kind, clientId, tokenState, refreshPromise, refreshReqs,
                 issued, calls, login>>

\* process.env.BTG_CLIENT_ID is set or unset.
SetClientId ==
  /\ kind = "btg"
  /\ clientId' = ~clientId
  /\ UNCHANGED <<csv, kind, now, tokenState, refreshPromise, refreshReqs,
                 issued, calls, login>>

\* ------------------------------------------------------------------ login

\* state values crypto.randomUUID() may produce.
StateValues == {1, 2}

\* The login run. interval is device.interval; pollIntervalUs is
\* pollIntervalMs in microseconds, the unit in which every value the loop
\* computes from these intervals is a whole number. polls counts the poll
\* requests sent, pendings the pending and slow_down answers received, resp
\* holds the token payload of the last poll.
IdleLogin == [pc |-> "idle", state |-> 0, opened |-> FALSE, start |-> 0,
              timeoutMs |-> 0, url |-> NULL, err |-> "none",
              interval |-> 0, pollIntervalUs |-> 0, polls |-> 0, pendings |-> 0,
              resp |-> NULL,
              nonces |-> 0, verifier |-> 0, challenge |-> 0, sentVerifier |-> 0]

\* randomBytes(32).toString("base64url"): a value no earlier call returned.
\* The values are numbered in the order they are generated; nonces counts
\* them.
RandomVerifier(l) == l.nonces + 1

\* createHash("sha256").update(verifier).digest("base64url"), as an
\* injective function whose values are no verifiers.
S256(v) == 1000 + v

\* A challenge that is the verifier itself (the "plain" method).
CodeChallenge_Plain(v) == v

\* generatePkce / generatePKCE: the challenge of a verifier.
CodeChallenge(v) == S256(v)

\* A run that has generated its verifier and sent (BTG: in the device-code
\* request; Mercado Livre: in the authorization URL) its challenge.
WithPkce(l) ==
  [IdleLogin EXCEPT !.nonces = l.nonces + 1,
                    !.verifier = RandomVerifier(l),
                    !.challenge = CodeChallenge(RandomVerifier(l))]

\* The code_verifier a token request of the run carries.
SendsVerifier(l) == [l EXCEPT !.sentVerifier = l.verifier]

\* A login that gives up when the browser cannot be opened.
OpenUrlAborts_OnFailure(ok) == ~ok

\* try { await openUrl(url) } catch { }: the failure is swallowed.
OpenUrlAborts(ok) == FALSE

\* The login run ends with outcome e.
LoginEnds(e) == [login EXCEPT !.pc = "idle", !.err = e]

\* BTG run: getClientId(), then requestDeviceCode sends its request.
BtgLoginRun ==
  /\ kind = "btg"
  /\ login.pc = "idle"
  /\ getClientId => login.nonces < MaxLogins
  /\ login' = IF getClientId
              THEN [WithPkce(login) EXCEPT !.pc = "device"]
              ELSE [IdleLogin EXCEPT !.err = "config", !.nonces = login.nonces]
  /\ UNCHANGED <<csv, kind, clientId, now, tokenState, refreshPromise, refreshReqs,
                 issued, calls>>

\* requestDeviceCode's response: a device code, or a failure.
BtgDeviceCodeResponse ==
  LET
      \* expires_in values (seconds) a device-code response may carry.
      DeviceExpiresIn == {300, 600}
      \* interval values (seconds) a device-code response may carry; 0: none.
      DeviceIntervals == {0, 10, 60}
  IN
  /\ kind = "btg"
  /\ login.pc = "device"
  /\ \/ \E ein \in DeviceExpiresIn, iv \in DeviceIntervals :
          login' = [login EXCEPT !.pc = "open", !.timeoutMs = ein * 1000,
                                 !.interval = iv]
     \/ login' = LoginEnds("device_failed")
  /\ UNCHANGED <<csv, kind, clientId, now, tokenState, refreshPromise, refreshReqs,
                 issued, calls>>

\* A loop condition that still holds at the very instant of expiry.
DeviceCodeLive_Inclusive(l) == now - l.start <= l.timeoutMs

\* while (Date.now() - start < timeoutMs)
DeviceCodeLive(l) == now - l.start < l.timeoutMs

\* let pollIntervalMs = device.interval ? device.interval * 1000 : 5000
InitialPollIntervalUs(iv) == IF iv # 0 THEN iv * 1000 * 1000 ELSE 5000 * 1000

\* Math.min(pollIntervalMs * 1.5, 30000)
SlowedDownUs(us) ==
  IF (us * 3) \div 2 < 30000 * 1000 THEN (us * 3) \div 2 ELSE 30000 * 1000

\* Mercado Livre run: createAuthorizationUrl, note.
MlLoginRun ==
  /\ kind = "ml"
  /\ login.pc = "idle"
  /\ login.nonces < MaxLogins
  /\ \E s \in StateValues : login' = [WithPkce(login) EXCEPT !.pc = "open", !.state = s]
  /\ UNCHANGED <<csv, kind, clientId, now, tokenState, refreshPromise, refreshReqs,
                 issued, calls>>

\* openUrl resolves or rejects; the rejection is swallowed. The device-code
\* flow then enters its polling loop, the authorization-code flow prompts.
OpenUrl ==
  /\ login.pc = "open"
  /\ \E ok \in BOOLEAN :
       login' = IF OpenUrlAborts(ok)
                THEN [login EXCEPT !.opened = ok, !.pc = "idle", !.err = "open_failed"]
                ELSE IF kind = "btg"
                THEN LET l == [login EXCEPT
                                 !.opened = ok, !.start = now,
                                 !.pollIntervalUs = InitialPollIntervalUs(login.interval)]
                     IN  IF DeviceCodeLive(l)
                         THEN SendsVerifier([l EXCEPT !.pc = "poll", !.polls = 1])
                         ELSE [l EXCEPT !.pc = "idle", !.err = "timed_out"]
                ELSE [login EXCEPT !.opened = ok, !.pc = "prompt"]
  /\ UNCHANGED <<csv, kind, clientId, now, tokenState, refreshPromise, refreshReqs,
                 issued, calls>>

\* One poll of the token endpoint comes back, and the loop body runs on it:
\* a token payload, authorization_pending, slow_down, or another error.
BtgPollResponse ==
  /\ kind = "btg"
  /\ login.pc = "poll"
  /\ \/ /\ issued < MaxIssued
        /\ issued' = issued + 1
        /\ \E p \in NextPayloads :
             LET l == [login EXCEPT !.resp = <<p>>]
             IN  IF BtgIncompletePayload(p)
                 THEN /\ login' = [l EXCEPT !.pc = "idle", !.err = "oauth_failed"]
                      /\ UNCHANGED tokenState
                 ELSE /\ login' = [l EXCEPT !.pc = "idle", !.err = "ok"]
                      /\ tokenState' = <<BtgDeviceToken(p)>>
     \/ /\ login' = [login EXCEPT !.pc = "sleep", !.pendings = login.pendings + 1]
        /\ UNCHANGED <<tokenState, issued>>
     \/ /\ login' = [login EXCEPT !.pc = "sleep", !.pendings = login.pendings + 1,
                                  !.pollIntervalUs = SlowedDownUs(login.pollIntervalUs)]
        /\ UNCHANGED <<tokenState, issued>>
     \/ /\ login' = LoginEnds("oauth_failed")
        /\ UNCHANGED <<tokenState, issued>>
  /\ UNCHANGED <<csv, kind, clientId, now, refreshPromise, refreshReqs, calls>>

\* The wait after a pending answer ends: the loop condition is tested again
\* and the next poll is sent, or the run ends as timed out.
BtgPollWake ==
  /\ kind = "btg"
  /\ login.pc = "sleep"
  /\ DeviceCodeLive(login) => login.polls < MaxPolls
  /\ login' = IF DeviceCodeLive(login)
              THEN SendsVerifier([login EXCEPT !.pc = "poll", !.polls = login.polls + 1])
              ELSE LoginEnds("timed_out")
  /\ UNCHANGED <<csv, kind, clientId, now, tokenState, refreshPromise, refreshReqs,
                 issued, calls>>

\* The checks run on the pasted text, in the order of the code.
MlRedirectVerdict(l, input) ==
  IF input.type = "empty" THEN "cancelled"
  ELSE IF input.type = "invalid" THEN "invalid_url"
  ELSE IF input.code = 0 THEN "no_code"
  ELSE IF input.state # l.state THEN "csrf"
  ELSE "exchange"

\* prompter.text returns; the redirect URL is parsed and checked, and
\* exchangeCodeForTokens sends its request.
MlPromptAnswer ==
  LET
      \* What the user may paste at the prompt: nothing, text that is no URL, or a
      \* URL with or without code and state parameters.
      PastedInputs ==
        {[type |-> "empty", code |-> 0, state |-> 0],
         [type |-> "invalid", code |-> 0, state |-> 0]} \cup
        {[type |-> "url", code |-> cd, state |-> s] : cd \in {0, 1}, s \in {0} \cup StateValues}
  IN
  /\ kind = "ml"
  /\ login.pc = "prompt"
  /\ \E input \in PastedInputs :
       LET v == MlRedirectVerdict(login, input)
           l == [login EXCEPT !.url = <<input>>]
       IN  login' = IF v = "exchange" THEN SendsVerifier([l EXCEPT !.pc = "exchange"])
                    ELSE [l EXCEPT !.pc = "idle", !.err = v]
  /\ UNCHANGED <<csv, kind, clientId, now, tokenState, refreshPromise, refreshReqs,
                 issued, calls>>

\* The token endpoint answers the code exchange (or its timeout fires), and
\* tokenManager.setToken stores the record.
MlExchangeResponse ==
  /\ kind = "ml"
  /\ login.pc = "exchange"
  /\ \/ /\ issued < MaxIssued
        /\ issued' = issued + 1
        /\ \E p \in NextPayloads :
             IF MlSchemaAccepts(p)
             THEN login' = LoginEnds("ok") /\ tokenState' = <<MlTokenFrom(p)>>
             ELSE login' = LoginEnds("exchange_failed") /\ UNCHANGED tokenState
     \/ /\ \E e \in {"exchange_failed", "timeout"} : login' = LoginEnds(e)
        /\ UNCHANGED <<tokenState, issued>>
  /\ UNCHANGED <<csv, kind, clientId, now, refreshPromise, refreshReqs, calls>>

\* ---------------------------------------------------------- fetch clients

\* HTTP statuses a resource endpoint may answer with.
Statuses == {200, 401, 403, 404, 429, 500}

\* The call of c ends with error e, raised for HTTP status s (0: none).
Failed(c, e, s) ==
  [IdleCall EXCEPT !.st = "err", !.err = e, !.status = s, !.attempt = calls[c].attempt]

\* The call of c ends with the validated body of a response with status s.
Done(c, s) == [IdleCall EXCEPT !.st = "done", !.status = s, !.attempt = calls[c].attempt]

\* The error btgFetch throws for a non-2xx status.
BtgFetchError(s) ==
  IF s = 401 THEN "auth_required" ELSE IF s = 429 THEN "rate_limited" ELSE "http_error"

\* if (res.status === 401) tokenState = null
BtgClearsTokenOn(s) == s = 401

\* The response to btgFetch's request: status s, body valid for the schema or not.
BtgFetchResponse(c) ==
  /\ kind = "btg"
  /\ calls[c].st = "fetching"
  /\ \E s \in Statuses, valid \in BOOLEAN :
       IF s # 200
       THEN /\ calls' = [calls EXCEPT ![c] = Failed(c, BtgFetchError(s), s)]
            /\ tokenState' = IF BtgClearsTokenOn(s) THEN NULL ELSE tokenState
       ELSE /\ calls' = [calls EXCEPT ![c] =
                           IF valid THEN Done(c, s) ELSE Failed(c, "schema", s)]
            /\ UNCHANGED tokenState
  /\ UNCHANGED <<csv, kind, clientId, now, refreshPromise, refreshReqs, issued, login>>

\* Which fetch client arms a timer that aborts its request: btgFetch and
\* fetchMercadoLivre do (setTimeout(() => controller.abort(), 15_000)),
\* fetchMercadoPago passes no signal.
FetchHasTimeout == kind \in {"btg", "ml"}

\* btgFetch's 15 s timer fires: the request is aborted and the call fails.
BtgFetchTimeout(c) ==
  /\ kind = "btg"
  /\ FetchHasTimeout
  /\ calls[c].st = "fetching"
  /\ calls' = [calls EXCEPT ![c] = Failed(c, "timeout", 0)]
  /\ UNCHANGED <<csv, kind, clientId, now, tokenState, refreshPromise, refreshReqs,
                 issued, login>>

\* The timer of one attempt of a retrying fetch fires: the AbortError is no
\* API error, so shouldRetry says no and the call fails.
RetryingFetchTimeout(c) ==
  /\ kind \in {"ml", "mp"}
  /\ FetchHasTimeout
  /\ calls[c].st = "fetching"
  /\ calls' = [calls EXCEPT ![c] = Failed(c, "timeout", 0)]
  /\ UNCHANGED <<csv, kind, clientId, now, tokenState, refreshPromise, refreshReqs,
                 issued, login>>

\* A shouldRetry that retries the rate limit only.
MlShouldRetry_Only429(s) == s = 429

\* A shouldRetry that takes every error status for retryable.
MlShouldRetry_AnyError(s) == s >= 400

\* shouldRetry: err.status === 429 || err.status >= 500
MlShouldRetry(s) == s = 429 \/ s >= 500

MpShouldRetry(s) == s = 429 \/ s >= 500

ShouldRetry(s) == IF kind = "ml" THEN MlShouldRetry(s) ELSE MpShouldRetry(s)

\* retryAsync: after a failed attempt, give up when the attempts are used up
\* or shouldRetry says no; otherwise wait and call fn again.
RetryAsyncGivesUp(attempt, retryable) == attempt >= RETRY_ATTEMPTS \/ ~retryable

\* fetchMercadoPago, called with config.accessToken: no token manager.
MpFetchSend(c) ==
  /\ kind = "mp"
  /\ calls[c].st = "idle"
  /\ calls' = [calls EXCEPT ![c] = [IdleCall EXCEPT !.st = "fetching", !.val = 1,
                                                    !.attempt = 1]]
  /\ UNCHANGED <<csv, kind, clientId, now, tokenState, refreshPromise, refreshReqs,
                 issued, login>>

\* The status of the error one attempt throws: the response's status, or 500
\* for a 2xx body that fails the schema; 0 when the attempt succeeds.
AttemptErrorStatus(s, valid) == IF s # 200 THEN s ELSE IF valid THEN 0 ELSE 500

\* Retry-After header values (seconds) a response may carry; 0: no header.
RetryAfterHeaders == {0, 30}

\* The retryAfter of the error fetchMercadoLivre throws for status s:
\* Number(headers.get("Retry-After")) || 60 for a 429, undefined (0) otherwise.
MlRetryAfter(s, h) == IF s = 429 THEN (IF h # 0 THEN h ELSE 60) ELSE 0

\* fetchMercadoPago: Number(headers.get("Retry-After")) || undefined for a 429.
MpRetryAfter(s, h) == IF s = 429 THEN h ELSE 0

RetryAfterOf(s, h) == IF kind = "ml" THEN MlRetryAfter(s, h) ELSE MpRetryAfter(s, h)

\* retryAfterMs: err.retryAfter ? err.retryAfter * 1000 : undefined (0).
RetryAfterMs(ra) == IF ra # 0 THEN ra * 1000 ELSE 0

\* The error one failed attempt throws: its message kind, its status, its
\* retryAfter, with the header it was made from and the delay retryAfterMs
\* asks retryAsync for.
AttemptError(c, s, valid, h) ==
  [calls[c] EXCEPT !.err = IF s = 200 THEN "invalid_response" ELSE "api_error",
                   !.status = AttemptErrorStatus(s, valid),
                   !.hdr = h,
                   !.retryAfter = RetryAfterOf(s, h),
                   !.hintMs = RetryAfterMs(RetryAfterOf(s, h))]

\* One attempt of fetchMercadoLivre or fetchMercadoPago gets its response;
\* retryAsync decides what follows.
RetryingFetchResponse(c) ==
  /\ kind \in {"ml", "mp"}
  /\ calls[c].st = "fetching"
  /\ \E s \in Statuses, valid \in BOOLEAN, h \in RetryAfterHeaders :
       /\ h # 0 => s = 429
       /\ LET es == AttemptErrorStatus(s, valid)
              e == AttemptError(c, s, valid, h)
          IN  calls' = [calls EXCEPT ![c] =
                IF es = 0 THEN Done(c, s)
                ELSE IF RetryAsyncGivesUp(calls[c].attempt, ShouldRetry(es))
                THEN [e EXCEPT !.st = "err", !.val = 0]
                ELSE [e EXCEPT !.st = "backoff"]]
  /\ UNCHANGED <<csv, kind, clientId, now, tokenState, refreshPromise, refreshReqs,
                 issued, login>>

\* retryAsync's wait is over: the next attempt sends its request.
RetryWake(c) ==
  /\ calls[c].st = "backoff"
  /\ calls' = [calls EXCEPT ![c] =
                 [calls[c] EXCEPT !.st = "fetching", !.err = "none", !.status = 0,
                                  !.hdr = 0, !.retryAfter = 0, !.hintMs = 0,
                                  !.attempt = calls[c].attempt + 1]]
  /\ UNCHANGED <<csv, kind, clientId, now, tokenState, refreshPromise, refreshReqs,
                 issued, login>>

\* The report tools of MercadoPago (get-cashflow, list-transactions). One
\* execution is followed: everything execute works on (report, delay, attempt)
\* is local to it. attempt counts the generation requests sent, file is
\* report.file_name (the n-th generation request is answered with report n),
\* downloads counts the download requests sent, delayUs is delay in
\* microseconds, the unit in which every value the loop gives it is whole,
\* waitedUs is the time the execution has spent in the loop's waits.
ReportCallers == {1}

maxAttempts == 12

\* execute: the date check, then fetchMercadoPago sends the generation POST.
ReportExecute(c) ==
  /\ kind = "mp"
  /\ calls[c].st = "idle"
  /\ \E datesValid \in BOOLEAN :
       calls' = [calls EXCEPT ![c] =
                   IF datesValid
                   THEN [IdleCall EXCEPT !.st = "fetching", !.val = 1, !.attempt = 1]
                   ELSE [IdleCall EXCEPT !.st = "done", !.result = "invalid_date"]]
  /\ UNCHANGED <<csv, kind, clientId, now, tokenState, refreshPromise, refreshReqs,
                 issued, login>>

\* One generation request is answered, or fails in transport. retryAsync
\* decides whether fetchMercadoPago tries again; a report that arrives starts
\* the polling loop with its first wait, an API error that ends the fetch
\* becomes the tool's error result, any other failure is thrown.
ReportGenerateResponse(c) ==
  /\ kind = "mp"
  /\ calls[c].st = "fetching"
  /\ \/ \E s \in Statuses, valid \in BOOLEAN, h \in RetryAfterHeaders :
          /\ h # 0 => s = 429
          /\ LET es == AttemptErrorStatus(s, valid)
                 e == AttemptError(c, s, valid, h)
             IN  calls' = [calls EXCEPT ![c] =
                   IF es = 0
                   THEN [Done(c, s) EXCEPT !.st = "rwait", !.status = 0,
                                           !.file = calls[c].attempt,
                                           !.delayUs = 5000 * 1000]
                   ELSE IF RetryAsyncGivesUp(calls[c].attempt, ShouldRetry(es))
                   THEN [e EXCEPT !.st = "done", !.val = 0, !.result = "api_error"]
                   ELSE [e EXCEPT !.st = "backoff"]]
     \/ calls' = [calls EXCEPT ![c] =
                    [calls[c] EXCEPT !.st = "err", !.val = 0, !.err = "network",
                                     !.result = "thrown"]]
  /\ UNCHANGED <<csv, kind, clientId, now, tokenState, refreshPromise, refreshReqs,
                 issued, login>>

\* The wait of the polling loop is over: the download request is sent.
ReportWaitOver(c) ==
  /\ kind = "mp"
  /\ calls[c].st = "rwait"
  /\ calls' = [calls EXCEPT ![c] =
                 [calls[c] EXCEPT !.st = "downloading", !.status = 0,
                                  !.downloads = calls[c].downloads + 1,
                                  !.waitedUs = calls[c].waitedUs + calls[c].delayUs]]
  /\ UNCHANGED <<csv, kind, clientId, now, tokenState, refreshPromise, refreshReqs,
                 issued, login>>

\* A download the inner catch treats as "report not ready": a 404.
ReportNotReady_Any4xx(s) == s \in 400..499

ReportNotReady(s) == s = 404

\* A next delay that doubles.
ReportNextDelayUs_Doubling(us) ==
  IF us * 2 < 30000 * 1000 THEN us * 2 ELSE 30000 * 1000

\* delay = Math.min(delay * 1.5, 30000)
ReportNextDelayUs(us) ==
  IF (us * 3) \div 2 < 30000 * 1000 THEN (us * 3) \div 2 ELSE 30000 * 1000

\* A loop that gives up one download early.
ReportPollExhausted_OneEarly(n) == n + 1 >= maxAttempts

\* for (let attempt = 0; attempt < maxAttempts; attempt++), after n downloads.
ReportPollExhausted(n) == ~(n < maxAttempts)

\* The download is answered, or fails in transport: the CSV is aggregated
\* and returned; a 404 raises the delay and goes on to the next wait, or to
\* the timeout result after the last attempt; any other API error becomes the
\* tool's error result; any other failure is thrown.
ReportDownloadResponse(c) ==
  /\ kind = "mp"
  /\ calls[c].st = "downloading"
  /\ \/ \E s \in Statuses :
          calls' = [calls EXCEPT ![c] =
            IF s = 200
            THEN [calls[c] EXCEPT !.st = "done", !.status = s, !.result = "data"]
            ELSE IF ReportNotReady(s)
            THEN LET d == [calls[c] EXCEPT !.status = s,
                                           !.delayUs = ReportNextDelayUs(calls[c].delayUs)]
                 IN  IF ReportPollExhausted(calls[c].downloads)
                     THEN [d EXCEPT !.st = "done", !.result = "timeout",
                                    !.report_id = calls[c].file]
                     ELSE [d EXCEPT !.st = "rwait"]
            ELSE [calls[c] EXCEPT !.st = "done", !.status = s, !.err = "api_error",
                                  !.result = "api_error"]]
     \/ calls' = [calls EXCEPT ![c] =
                    [calls[c] EXCEPT !.st = "err", !.err = "network",
                                     !.result = "thrown"]]
  /\ UNCHANGED <<csv, kind, clientId, now, tokenState, refreshPromise, refreshReqs,
                 issued, login>>

\* The cashflow tool that pages through /v1/payments/search. offset and
\* transactionCount (counted) are local to the execution; pages counts the
\* calls of fetchMercadoPago, pageLen and pageTotal are results.length and
\* paging.total of the last response, overlong says that some response held
\* more results than the limit asked for.
limit == 100

\* execute: the date check, then the first page is requested at offset 0.
PaymentsExecute(c) ==
  /\ kind = "mp"
  /\ calls[c].st = "idle"
  /\ \E datesValid \in BOOLEAN :
       calls' = [calls EXCEPT ![c] =
                   IF datesValid
                   THEN [IdleCall EXCEPT !.st = "paging", !.val = 1, !.pages = 1]
                   ELSE [IdleCall EXCEPT !.st = "done", !.result = "invalid_date"]]
  /\ UNCHANGED <<csv, kind, clientId, now, tokenState, refreshPromise, refreshReqs,
                 issued, login>>

\* response.results.length < limit || offset + limit >= response.paging.total
PaymentsLastPage(len, offset, total) == len < limit \/ offset + limit >= total

\* fetchMercadoPago returns a page, or throws: the results are counted, then
\* the loop ends (last page, or offset at the safety limit of 1000) or the
\* next page is requested; an error ends the execution with the error result.
PaymentsPageResponse(c) ==
  LET
      \* results.length of a response: none, a short page, a full page, and
      \* more than was asked for.
      PageSizes == {0, 50, 100, 150}
      \* paging.total of a response.
      PageTotals == {0, 250, 5000}
  IN
  /\ kind = "mp"
  /\ calls[c].st = "paging"
  /\ \/ \E len \in PageSizes, total \in PageTotals :
          LET d == [calls[c] EXCEPT !.pageLen = len, !.pageTotal = total,
                                    !.counted = calls[c].counted + len,
                                    !.overlong = calls[c].overlong \/ len > limit]
          IN  calls' = [calls EXCEPT ![c] =
                IF PaymentsLastPage(len, calls[c].offset, total)
                THEN [d EXCEPT !.st = "done", !.result = "data"]
                ELSE IF calls[c].offset + limit >= 1000
                THEN [d EXCEPT !.st = "done", !.result = "data",
                               !.offset = calls[c].offset + limit]
                ELSE [d EXCEPT !.offset = calls[c].offset + limit,
                               !.pages = calls[c].pages + 1]]
     \/ calls' = [calls EXCEPT ![c] =
                    [calls[c] EXCEPT !.st = "done", !.err = "api_error",
                                     !.result = "api_error"]]
  /\ UNCHANGED <<csv, kind, clientId, now, tokenState, refreshPromise, refreshReqs,
                 issued, login>>

\* execute returns its result (or its error result) to the host.
Return(c) ==
  /\ calls[c].st \in {"done", "err"}
  /\ calls' = [calls EXCEPT ![c] = IdleCall]
  /\ UNCHANGED <<csv, kind, clientId, now, tokenState, refreshPromise, refreshReqs,
                 issued, login>>

\* -------------------------------------------------------------- csv-parser

\* A string is a sequence of characters; "" is <<>>.
Digits == {"0", "1", "2", "3", "4", "5", "6", "7", "8", "9"}

\* s.slice(i - 1): the part of s from position i on.
From(s, i) == SubSeq(s, i, Len(s))

\* The length of the longest prefix of s made of characters of A.
RECURSIVE PrefixLen(_, _)
PrefixLen(s, A) ==
  IF s # <<>> /\ Head(s) \in A THEN 1 + PrefixLen(Tail(s), A) ELSE 0

AllIn(s, A) == \A i \in 1..Len(s) : s[i] \in A

StartsWith(s, A) == s # <<>> /\ s[1] \in A

\* s without an optional leading sign.
Unsigned(s) == IF StartsWith(s, {"+", "-"}) THEN Tail(s) ELSE s

\* /^[+-]?\d+\.?\d*$/ : sign, digits, then optionally a point and digits.
MatchesSignedNumber(v) ==
  LET u == Unsigned(v)
      n == PrefixLen(u, Digits)
      rest == From(u, n + 1)
  IN  /\ n >= 1
      /\ \/ rest = <<>>
         \/ rest[1] = "." /\ AllIn(Tail(rest), Digits)

\* sanitizeValue with the tab and carriage-return rule left out.
sanitizeValue_NoControl(value) ==
  IF StartsWith(value, {"=", "@"}) THEN <<"'">> \o value
  ELSE IF StartsWith(value, {"+", "-"}) /\ ~MatchesSignedNumber(value)
  THEN <<"'">> \o value
  ELSE value

\* sanitizeValue with the number test left out.
sanitizeValue_AnySign(value) ==
  IF StartsWith(value, {"=", "@", "+", "-", "\t", "\r"}) THEN <<"'">> \o value
  ELSE value

sanitizeValue(value) ==
  IF StartsWith(value, {"=", "@"}) THEN <<"'">> \o value
  ELSE IF StartsWith(value, {"+", "-"}) /\ ~MatchesSignedNumber(value)
  THEN <<"'">> \o value
  ELSE IF StartsWith(value, {"\t", "\r"}) THEN <<"'">> \o value
  ELSE value

Values ==
  LET
      \* The strings over alphabet A of length at most n.
      StringsUpTo(A, n) == UNION {[1..k -> A] : k \in 0..n}
      \* The characters the cell values are drawn from.
      ValueChars == {"=", "@", "+", "-", "\t", "\r", "'", "5", ".", "a"}
  IN
  StringsUpTo(ValueChars, MaxValueLen)

\* String.prototype.trim: the white space at both ends removed.
WhiteSpace == {" ", "\t", "\r", "\n"}

RECURSIVE TrimStart(_)
TrimStart(s) == IF StartsWith(s, WhiteSpace) THEN TrimStart(Tail(s)) ELSE s

RECURSIVE TrimEnd(_)
TrimEnd(s) ==
  IF s # <<>> /\ s[Len(s)] \in WhiteSpace THEN TrimEnd(SubSeq(s, 1, Len(s) - 1))
  ELSE s

Trim(s) == TrimEnd(TrimStart(s))

\* parseCSVLine that gives the doubled quote no special treatment.
RECURSIVE ParseLineFrom_NoEscape(_, _, _, _, _)
ParseLineFrom_NoEscape(line, i, current, inQuotes, result) ==
  IF i > Len(line) THEN Append(result, Trim(current))
  ELSE IF line[i] = "\""
       THEN ParseLineFrom_NoEscape(line, i + 1, current, ~inQuotes, result)
  ELSE IF line[i] = "," /\ ~inQuotes
       THEN ParseLineFrom_NoEscape(line, i + 1, <<>>, inQuotes,
                                   Append(result, Trim(current)))
  ELSE ParseLineFrom_NoEscape(line, i + 1, Append(current, line[i]), inQuotes, result)

\* The loop of parseCSVLine from position i (line[i - 1] in the code) on,
\* and the push after it.
RECURSIVE ParseLineFrom(_, _, _, _, _)
ParseLineFrom(line, i, current, inQuotes, result) ==
  IF i > Len(line) THEN Append(result, Trim(current))
  ELSE IF line[i] = "\""
       THEN IF inQuotes /\ i + 1 <= Len(line) /\ line[i + 1] = "\""
            THEN ParseLineFrom(line, i + 2, Append(current, "\""), inQuotes, result)
            ELSE ParseLineFrom(line, i + 1, current, ~inQuotes, result)
  ELSE IF line[i] = "," /\ ~inQuotes
       THEN ParseLineFrom(line, i + 1, <<>>, inQuotes, Append(result, Trim(current)))
  ELSE ParseLineFrom(line, i + 1, Append(current, line[i]), inQuotes, result)

parseCSVLine(line) == ParseLineFrom(line, 1, <<>>, FALSE, <<>>)

\* The text of a CSV record: fields joined by commas, a quoted field wrapped
\* in double quotes with each quote inside it doubled.
RECURSIVE DoubleQuotes(_)
DoubleQuotes(s) ==
  IF s = <<>> THEN <<>>
  ELSE (IF Head(s) = "\"" THEN <<"\"", "\"">> ELSE <<Head(s)>>) \o DoubleQuotes(Tail(s))

EncodeField(f) ==
  IF f.quoted THEN <<"\"">> \o DoubleQuotes(f.content) \o <<"\"">> ELSE f.content

RECURSIVE EncodeRecord(_)
EncodeRecord(fields) ==
  IF fields = <<>> THEN <<>>
  ELSE IF Len(fields) = 1 THEN EncodeField(fields[1])
  ELSE EncodeField(fields[1]) \o <<",">> \o EncodeRecord(Tail(fields))

Fields ==
  LET
      \* The field contents the records are made of: plain text, text with a
      \* comma, with a quote, with both, with white space at an end, empty.
      FieldContents ==
        {<<>>, <<"a">>, <<"a", ",", "b">>, <<"a", "\"", "b">>, <<"\"", ",">>,
         <<",">>, <<" ", "a">>, <<"a", " ", "b">>}
      \* A field needs its quotes when it holds a comma or a quote.
      MustQuote(content) == \E i \in 1..Len(content) : content[i] \in {",", "\""}
  IN
  {f \in [content : FieldContents, quoted : BOOLEAN] :
     MustQuote(f.content) => f.quoted}

Records == UNION {[1..n -> Fields] : n \in 1..MaxFields}

\* csv.split("\n")
RECURSIVE LineLen(_)
LineLen(s) == IF s # <<>> /\ Head(s) # "\n" THEN 1 + LineLen(Tail(s)) ELSE 0

RECURSIVE SplitLines(_)
SplitLines(s) ==
  IF LineLen(s) = Len(s) THEN <<s>>
  ELSE <<SubSeq(s, 1, LineLen(s))>> \o SplitLines(From(s, LineLen(s) + 2))

\* A row object: its entries [key, value] in the order the keys were first
\* set. row[key] = value replaces the value of a key the row already has.
RowSet(row, key, value) ==
  IF \E i \in 1..Len(row) : row[i].key = key
  THEN [i \in 1..Len(row) |->
          IF row[i].key = key THEN [key |-> key, value |-> value] ELSE row[i]]
  ELSE Append(row, [key |-> key, value |-> value])

HasKey(row, key) == \E i \in 1..Len(row) : row[i].key = key

\* row[key], for a key the row has.
RowGet(row, key) == row[CHOOSE i \in 1..Len(row) : row[i].key = key].value

\* A row that stores the parsed values as they are.
RECURSIVE RowFrom_Unsanitized(_, _, _, _)
RowFrom_Unsanitized(headers, values, j, row) ==
  IF j > Len(headers) THEN row
  ELSE RowFrom_Unsanitized(headers, values, j + 1,
         RowSet(row, headers[j], IF j <= Len(values) THEN values[j] ELSE <<>>))

\* for (j ...) row[headers[j]] = sanitizeValue(values[j] ?? "")
RECURSIVE RowFrom(_, _, _, _)
RowFrom(headers, values, j, row) ==
  IF j > Len(headers) THEN row
  ELSE RowFrom(headers, values, j + 1,
         RowSet(row, headers[j],
                sanitizeValue(IF j <= Len(values) THEN values[j] ELSE <<>>)))

\* A line test that skips only the lines of length 0.
SkipsLine_EmptyOnly(line) == line = <<>>

\* const line = lines[i].trim(); if (!line) continue;
SkipsLine(line) == Trim(line) = <<>>

\* The data-row loop of parseCSVStream from line i on: the rows it yields.
RECURSIVE RowsFrom(_, _, _)
RowsFrom(lines, headers, i) ==
  IF i > Len(lines) THEN <<>>
  ELSE IF SkipsLine(lines[i]) THEN RowsFrom(lines, headers, i + 1)
  ELSE <<RowFrom(headers, parseCSVLine(Trim(lines[i])), 1, <<>>)>>
         \o RowsFrom(lines, headers, i + 1)

\* parseCSVStream, as the sequence of the rows it yields.
parseCSVStream(text) ==
  RowsFrom(SplitLines(text), parseCSVLine(SplitLines(text)[1]), 2)

\* A plain (unquoted) field and a quoted one.
Plain(content) == [content |-> content, quoted |-> FALSE]

\* A line of a CSV text: a record (its cells), or a blank line (its text).
RecordLine(cells) == [cells |-> cells, blank |-> <<>>]

BlankLine(text) == [cells |-> <<>>, blank |-> text]

\* The text of a CSV: the header line, then "\n" and a line for each line.
RECURSIVE LinesText(_)
LinesText(ls) ==
  LET
      LineText(l) == IF l.cells = <<>> THEN l.blank ELSE EncodeRecord(l.cells)
  IN
  IF ls = <<>> THEN <<>> ELSE <<"\n">> \o LineText(ls[1]) \o LinesText(Tail(ls))

CsvText(header, ls) == EncodeRecord(header) \o LinesText(ls)

\* Header lines: two columns, one column, a repeated column name, and the
\* empty header of the empty input.
StreamHeaders ==
  {<<Plain(<<"a">>), Plain(<<"b">>)>>, <<Plain(<<"a">>)>>,
   <<Plain(<<"a">>), Plain(<<"a">>)>>, <<>>}

\* Data lines: full, short and long records, values that sanitizeValue
\* changes, cells with white space at their start, quoted cells, numbers
\* with a sign, blank lines.
StreamLines ==
  LET
      Quoted(content) == [content |-> content, quoted |-> TRUE]
  IN
  {RecordLine(<<Plain(<<"1">>), Plain(<<"2">>)>>),
   RecordLine(<<Plain(<<"1">>)>>),
   RecordLine(<<Plain(<<"1">>), Plain(<<>>), Plain(<<"3">>)>>),
   RecordLine(<<Plain(<<"=", "a">>), Plain(<<"-", "5">>)>>),
   RecordLine(<<Quoted(<<" ", "a">>), Plain(<<"+", "b">>)>>),
   RecordLine(<<Quoted(<<"a", ",", "b">>), Plain(<<"'", "c">>)>>),
   RecordLine(<<Quoted(<<" ", "=", "a">>), Plain(<<"-", "5", ".">>)>>),
   RecordLine(<<Plain(<<"-", "5", ".", "5">>), Plain(<<"\t", "@">>)>>),
   BlankLine(<<>>), BlankLine(<<" ">>)}

LineLists(S) == UNION {[1..n -> S] : n \in 0..MaxLines}

\* A number in hundredths (the amounts have at most two decimals), or NaN.
NaN == [nan |-> TRUE, v |-> 0]

Num(v) == [nan |-> FALSE, v |-> v]

DigitValue(d) ==
  LET
      DigitSeq == <<"0", "1", "2", "3", "4", "5", "6", "7", "8", "9">>
  IN
  (CHOOSE i \in 1..10 : DigitSeq[i] = d) - 1

\* The value of a string of digits; 0 for the empty one.
RECURSIVE DigitsValue(_)
DigitsValue(ds) ==
  IF ds = <<>> THEN 0
  ELSE 10 * DigitsValue(SubSeq(ds, 1, Len(ds) - 1)) + DigitValue(ds[Len(ds)])

\* The hundredths the digits after the point stand for.
FractionHundredths(fs) ==
  10 * (IF Len(fs) >= 1 THEN DigitValue(fs[1]) ELSE 0)
    + (IF Len(fs) >= 2 THEN DigitValue(fs[2]) ELSE 0)

\* parseFloat: leading white space skipped, an optional sign, the longest
\* prefix of the form digits, point, digits with at least one digit; NaN
\* when there is none. What follows the prefix is ignored.
ParseFloat(s) ==
  LET t == TrimStart(s)
      u == Unsigned(t)
      n == PrefixLen(u, Digits)
      afterInt == From(u, n + 1)
      fs == IF StartsWith(afterInt, {"."})
            THEN SubSeq(afterInt, 2, 1 + PrefixLen(Tail(afterInt), Digits))
            ELSE <<>>
      magnitude == 100 * DigitsValue(SubSeq(u, 1, n)) + FractionHundredths(fs)
  IN  IF n + Len(fs) = 0 THEN NaN
      ELSE Num(IF StartsWith(t, {"-"}) THEN 0 - magnitude ELSE magnitude)

Abs(x) == IF x < 0 THEN 0 - x ELSE x

\* Math.abs
MathAbs(x) == IF x.nan THEN NaN ELSE Num(Abs(x.v))

\* if (!isNaN(x) && x > 0) total += x: what x adds to the total.
Adds(x) == IF ~x.nan /\ x.v > 0 THEN x.v ELSE 0

\* row.NAME || "0"
AmountText(row, name) ==
  IF HasKey(row, name) /\ RowGet(row, name) # <<>> THEN RowGet(row, name)
  ELSE <<"0">>

NET_CREDIT_AMOUNT == <<"N", "E", "T", "_", "C", "R", "E", "D", "I", "T", "_", "A", "M", "O", "U", "N", "T">>

NET_DEBIT_AMOUNT == <<"N", "E", "T", "_", "D", "E", "B", "I", "T", "_", "A", "M", "O", "U", "N", "T">>

\* A count that leaves out the rows with an amount that does not parse.
CountsRow_ParsedOnly(credit, debit) == ~credit.nan /\ ~debit.nan

\* transactionCount++ : every row is counted.
CountsRow(credit, debit) == TRUE

\* if (!isNaN(credit) && credit > 0) totalInflow += credit
Inflow(credit) == Adds(credit)

\* const debit = Math.abs(debitRaw); if (!isNaN(debit) && debit > 0) ...
Outflow(debitRaw) == Adds(MathAbs(debitRaw))

\* The loop of aggregateCashflow over the rows from row i on, added to acc.
RECURSIVE AggregateFrom(_, _, _)
AggregateFrom(rows, i, acc) ==
  IF i > Len(rows) THEN acc
  ELSE LET credit == ParseFloat(AmountText(rows[i], NET_CREDIT_AMOUNT))
           debitRaw == ParseFloat(AmountText(rows[i], NET_DEBIT_AMOUNT))
       IN  AggregateFrom(rows, i + 1,
             [totalInflow |-> acc.totalInflow + Inflow(credit),
              totalOutflow |-> acc.totalOutflow + Outflow(debitRaw),
              transactionCount |->
                acc.transactionCount + (IF CountsRow(credit, debitRaw) THEN 1 ELSE 0)])

aggregateCashflow(text) ==
  AggregateFrom(parseCSVStream(text), 1,
                [totalInflow |-> 0, totalOutflow |-> 0, transactionCount |-> 0])

\* The header of a report, and one without the debit column.
CashflowHeaders ==
  {<<Plain(NET_CREDIT_AMOUNT), Plain(NET_DEBIT_AMOUNT)>>, <<Plain(NET_CREDIT_AMOUNT)>>}

\* Report lines: amounts of either sign, with decimals, cells that are not
\* numbers, a line without its debit cell, blank lines.
CashflowLines ==
  {RecordLine(<<Plain(<<"1", "0", "0">>), Plain(<<"0">>)>>),
   RecordLine(<<Plain(<<"0">>), Plain(<<"-", "7", "5">>)>>),
   RecordLine(<<Plain(<<"-", "5", "0">>), Plain(<<"0">>)>>),
   RecordLine(<<Plain(<<"a", "b", "c">>), Plain(<<"0">>)>>),
   RecordLine(<<Plain(<<"1", "0", "0">>), Plain(<<"x", "y", "z">>)>>),
   RecordLine(<<Plain(<<"1", "2", ".", "5">>), Plain(<<"7", ".", "2", "5">>)>>),
   RecordLine(<<Plain(<<"1", "0", "0">>)>>),
   RecordLine(<<Plain(<<"-", "x">>), Plain(<<"+", "5">>)>>),
   BlankLine(<<>>),
   BlankLine(<<" ", " ">>)}

\* No call of a csv-parser function.
IdleCsv == [fn |-> "none", arg |-> <<>>, src |-> <<>>, out |-> NULL]

\* sanitizeValue(value), and sanitizeValue applied to its own result.
SanitizeValue ==
  /\ csv.fn = "sanitizeValue"
  /\ Len(csv.out) < 2
  /\ csv' = [csv EXCEPT !.out =
               IF csv.out = NULL THEN <<sanitizeValue(csv.arg)>>
               ELSE Append(csv.out, sanitizeValue(csv.out[1]))]
  /\ UNCHANGED <<kind, clientId, now, tokenState, refreshPromise, refreshReqs,
                 issued, calls, login>>

\* parseCSVLine(line).
ParseCSVLine ==
  /\ csv.fn = "parseCSVLine"
  /\ csv.out = NULL
  /\ csv' = [csv EXCEPT !.out = <<parseCSVLine(csv.arg)>>]
  /\ UNCHANGED <<kind, clientId, now, tokenState, refreshPromise, refreshReqs,
                 issued, calls, login>>

\* [...parseCSVStream(csv)]: the generator run to its end.
ParseCSVStream ==
  /\ csv.fn = "parseCSVStream"
  /\ csv.out = NULL
  /\ csv' = [csv EXCEPT !.out = <<parseCSVStream(csv.arg)>>]
  /\ UNCHANGED <<kind, clientId, now, tokenState, refreshPromise, refreshReqs,
                 issued, calls, login>>

\* aggregateCashflow(csv).
AggregateCashflow ==
  /\ csv.fn = "aggregateCashflow"
  /\ csv.out = NULL
  /\ csv' = [csv EXCEPT !.out = <<aggregateCashflow(csv.arg)>>]
  /\ UNCHANGED <<kind, clientId, now, tokenState, refreshPromise, refreshReqs,
                 issued, calls, login>>

\* ------------------------------------------------------------ specification

\* btgFetch as the token manager sees it: the request is answered with some
\* status (or times out) and the tool returns; a 401 clears the token record
\* on the way. NextFetch has the outcomes one by one.
BtgFetchEnds(c) ==
  /\ kind = "btg"
  /\ calls[c].st = "fetching"
  /\ \E s \in Statuses :
       tokenState' = IF BtgClearsTokenOn(s) THEN NULL ELSE tokenState
  /\ calls' = [calls EXCEPT ![c] = IdleCall]
  /\ UNCHANGED <<csv, kind, clientId, now, refreshPromise, refreshReqs, issued, login>>

\* fetchMercadoLivre reads and writes nothing of the token manager: for the
\* token manager the fetch of a tool is over at some point, whatever its
\* attempts were (NextFetch has them).
MlFetchEnds(c) ==
  /\ kind = "ml"
  /\ calls[c].st = "fetching"
  /\ calls' = [calls EXCEPT ![c] = IdleCall]
  /\ UNCHANGED <<csv, kind, clientId, now, tokenState, refreshPromise, refreshReqs,
                 issued, login>>

Init ==
  /\ kind \in {"btg", "ml"}
  /\ clientId = TRUE
  /\ now = 0
  /\ tokenState = NULL
  /\ refreshPromise = NULL
  /\ refreshReqs = {}
  /\ issued = 0
  /\ calls = [c \in Callers |-> IdleCall]
  /\ login = IdleLogin
  /\ csv = IdleCsv

\* The token managers: getToken, the refresh, the logins that install a
\* record, and the fetch that follows getToken (btgFetch clears the record).
Next ==
  \/ \E c \in Callers : BtgGetToken(c)
  \/ \E c \in Callers : MlGetToken(c)
  \/ \E r \in refreshReqs : TokenEndpointAnswers(r)
  \/ \E r \in refreshReqs : RefreshTimeout(r)
  \/ \E r \in refreshReqs : BtgRefreshSettle(r)
  \/ \E r \in refreshReqs : MlRefreshSettle(r)
  \/ BtgLoginCompletes
  \/ MlLoginCompletes
  \/ Tick
  \/ SetClientId
  \/ \E c \in Callers : BtgFetchEnds(c)
  \/ \E c \in Callers : MlFetchEnds(c)
  \/ \E c \in Callers : Return(c)

Spec == Init /\ [][Next]_vars

\* The token managers with the steps the program itself takes done in the
\* end: a timer that is armed fires, a refresh whose response is in settles.
\* Nothing obliges the token endpoint to answer.
SpecRefreshFair ==
  /\ Spec
  /\ WF_vars(\E r \in refreshReqs : RefreshTimeout(r))
  /\ WF_vars(\E r \in refreshReqs : BtgRefreshSettle(r))
  /\ WF_vars(\E r \in refreshReqs : MlRefreshSettle(r))

\* A token record as a completed login leaves it: fresh for both buffers.
EstablishedToken == [access |-> 1, refresh |-> 1, expires |-> 1200 * 1000]

\* The fetch clients, with a token established (MercadoPago has its
\* configured access token instead).
InitFetch ==
  /\ kind \in Kinds
  /\ clientId = TRUE
  /\ now = 0
  /\ tokenState = IF kind = "mp" THEN NULL ELSE <<EstablishedToken>>
  /\ refreshPromise = NULL
  /\ refreshReqs = {}
  /\ issued = IF kind = "mp" THEN 0 ELSE 1
  /\ calls = [c \in Callers |-> IdleCall]
  /\ login = IdleLogin
  /\ csv = IdleCsv

NextFetch ==
  \/ \E c \in Callers : BtgGetToken(c)
  \/ \E c \in Callers : MlGetToken(c)
  \/ \E c \in Callers : MpFetchSend(c)
  \/ \E c \in Callers : BtgFetchResponse(c)
  \/ \E c \in Callers : BtgFetchTimeout(c)
  \/ \E c \in Callers : RetryingFetchResponse(c)
  \/ \E c \in Callers : RetryingFetchTimeout(c)
  \/ \E c \in Callers : RetryWake(c)
  \/ \E c \in Callers : Return(c)

SpecFetch == InitFetch /\ [][NextFetch]_vars

\* One execution of a MercadoPago report tool.
InitReport ==
  /\ kind = "mp"
  /\ clientId = TRUE
  /\ now = 0
  /\ tokenState = NULL
  /\ refreshPromise = NULL
  /\ refreshReqs = {}
  /\ issued = 0
  /\ calls = [c \in Callers |-> IdleCall]
  /\ login = IdleLogin
  /\ csv = IdleCsv

NextReport ==
  \/ \E c \in ReportCallers : ReportExecute(c)
  \/ \E c \in ReportCallers : ReportGenerateResponse(c)
  \/ \E c \in ReportCallers : RetryWake(c)
  \/ \E c \in ReportCallers : ReportWaitOver(c)
  \/ \E c \in ReportCallers : ReportDownloadResponse(c)
  \/ \E c \in ReportCallers : Return(c)

SpecReport == InitReport /\ [][NextReport]_vars

\* One execution of the payments-search cashflow tool.
NextPayments ==
  \/ \E c \in ReportCallers : PaymentsExecute(c)
  \/ \E c \in ReportCallers : PaymentsPageResponse(c)
  \/ \E c \in ReportCallers : Return(c)

\* Every page request is answered (or fails) in the end.
SpecPaymentsFair ==
  /\ InitReport
  /\ [][NextPayments]_vars
  /\ \A c \in ReportCallers : WF_vars(PaymentsPageResponse(c))

\* The login runs, step by step.
InitLogin ==
  /\ kind \in {"btg", "ml"}
  /\ clientId \in (IF kind = "btg" THEN BOOLEAN ELSE {TRUE})
  /\ now = 0
  /\ tokenState = NULL
  /\ refreshPromise = NULL
  /\ refreshReqs = {}
  /\ issued = 0
  /\ calls = [c \in Callers |-> IdleCall]
  /\ login = IdleLogin
  /\ csv = IdleCsv

NextLogin ==
  \/ BtgLoginRun
  \/ BtgDeviceCodeResponse
  \/ MlLoginRun
  \/ OpenUrl
  \/ BtgPollResponse
  \/ BtgPollWake
  \/ MlPromptAnswer
  \/ MlExchangeResponse
  \/ Tick
  \/ SetClientId

SpecLogin == InitLogin /\ [][NextLogin]_vars

\* The login runs when every poll request is answered and every wait of the
\* polling loop ends.
SpecLoginFair ==
  SpecLogin /\ WF_vars(BtgPollResponse) /\ WF_vars(BtgPollWake)

\* A token record past its refresh time, with a refresh value.
StaleToken == [access |-> 1, refresh |-> 1, expires |-> 0]

\* The BTG operations that read BTG_CLIENT_ID, the login run and the token
\* refresh, with the variable set or not.
InitConfig ==
  /\ kind = "btg"
  /\ clientId \in BOOLEAN
  /\ now = 0
  /\ tokenState = <<StaleToken>>
  /\ refreshPromise = NULL
  /\ refreshReqs = {}
  /\ issued = 1
  /\ calls = [c \in Callers |-> IdleCall]
  /\ login = IdleLogin
  /\ csv = IdleCsv

NextConfig ==
  \/ \E c \in Callers : BtgGetToken(c)
  \/ \E r \in refreshReqs : TokenEndpointAnswers(r)
  \/ \E r \in refreshReqs : BtgRefreshSettle(r)
  \/ BtgLoginRun
  \/ BtgDeviceCodeResponse
  \/ SetClientId
  \/ \E c \in Callers : BtgFetchEnds(c)
  \/ \E c \in Callers : Return(c)

SpecConfig == InitConfig /\ [][NextConfig]_vars

\* The csv-parser functions, each applied to one argument.
InitCsv ==
  /\ kind = "mp"
  /\ clientId = TRUE
  /\ now = 0
  /\ tokenState = NULL
  /\ refreshPromise = NULL
  /\ refreshReqs = {}
  /\ issued = 0
  /\ calls = [c \in Callers |-> IdleCall]
  /\ login = IdleLogin
  /\ \/ \E v \in Values : csv = [IdleCsv EXCEPT !.fn = "sanitizeValue", !.arg = v]
     \/ \E r \in Records :
          csv = [IdleCsv EXCEPT !.fn = "parseCSVLine", !.arg = EncodeRecord(r),
                                !.src = r]
     \/ \E h \in StreamHeaders, ls \in LineLists(StreamLines) :
          /\ h = <<>> => ls = <<>>
          /\ csv = [IdleCsv EXCEPT !.fn = "parseCSVStream", !.arg = CsvText(h, ls),
                                   !.src = [header |-> h, lines |-> ls]]
     \/ \E h \in CashflowHeaders, ls \in LineLists(CashflowLines) :
          csv = [IdleCsv EXCEPT !.fn = "aggregateCashflow", !.arg = CsvText(h, ls),
                                !.src = [header |-> h, lines |-> ls]]

NextCsv ==
  \/ SanitizeValue
  \/ ParseCSVLine
  \/ ParseCSVStream
  \/ AggregateCashflow

SpecCsv == InitCsv /\ [][NextCsv]_vars

\* ------------------------------------------------------------- properties

\* Caller c makes its getToken call in this step.
CallsGetToken(c) == calls[c].st = "idle" /\ calls'[c].st # "idle"

\* A token record exists and is expired or inside the refresh buffer.
TokenNeedsRefresh ==
  tokenState # NULL /\ ~(now < tokenState[1].expires - REFRESH_BUFFER_MS)

\* The refresh of request r settles in this step.
RefreshSettles(r) == r \in refreshReqs /\ r.resp # NULL /\ r \notin refreshReqs'

\* The callers awaiting the refresh of request r.
Waiters(r) == {c \in Callers : calls[c].st = "waiting" /\ calls[c].pid = r.pid}

\* C1: every getToken call made while the token record is expired or inside
\* the refresh buffer ends up awaiting the one refresh request that is then
\* outstanding (the call sends it when none was outstanding and sends none
\* otherwise), and when that request is answered with a token payload every
\* caller awaiting it receives the access token of that payload. Stated for
\* the calls a refresh request can be sent for: the record carries a refresh
\* value and the client id is configured when the call is made.
C1_EveryCallSharesOneRefresh ==
  [][/\ \A c \in Callers :
          (/\ CallsGetToken(c)
           /\ TokenNeedsRefresh
           /\ tokenState[1].refresh # 0
           /\ clientId)
          => /\ Cardinality(refreshReqs') = 1
             /\ refreshReqs # {} => refreshReqs' = refreshReqs
             /\ calls'[c].st = "waiting"
             /\ \E r \in refreshReqs' : calls'[c].pid = r.pid
     /\ \A r \in refreshReqs :
          (RefreshSettles(r) /\ r.resp[1].type = "ok" /\ r.resp[1].refresh_token # 0)
          => \A c \in Waiters(r) :
               /\ calls'[c].st = "fetching"
               /\ calls'[c].val = r.resp[1].access_token]_vars

\* C2: at most one refresh request is outstanding, and the pending-refresh
\* handle is non-null exactly while a request is outstanding.
C2_HandleSetExactlyWhileOutstanding ==
  /\ Cardinality(refreshReqs) <= 1
  /\ (refreshPromise # NULL) <=> (refreshReqs # {})

\* C3: when a refresh request fails (non-2xx answer or abort), the token
\* record becomes null and every caller awaiting the refresh receives the
\* failure, so that the next getToken fails as not-authenticated.
C3_FailedRefreshClearsRecord ==
  [][\A r \in refreshReqs :
       (RefreshSettles(r) /\ r.resp[1].type # "ok")
       => /\ tokenState' = NULL
          /\ \A c \in Waiters(r) : calls'[c].st = "err"]_vars

\* C4: when a resource fetch that carries the current access token receives
\* HTTP 401, the token record is null afterwards.
C4_Unauthorized401ClearsRecord ==
  [][\A c \in Callers :
       (/\ calls[c].st = "fetching"
        /\ tokenState # NULL
        /\ calls[c].val = tokenState[1].access
        /\ calls'[c].st = "err"
        /\ calls'[c].status = 401)
       => tokenState' = NULL]_vars

\* C5: a getToken call made while a token record exists and
\* now < expires - REFRESH_BUFFER returns the record's access value, sends no
\* request to the token endpoint, and leaves the token record and the
\* pending-refresh handle unchanged.
C5_FreshTokenReturnedFromCache ==
  [][\A c \in Callers :
       (/\ CallsGetToken(c)
        /\ tokenState # NULL
        /\ now < tokenState[1].expires - REFRESH_BUFFER_MS)
       => /\ calls'[c].st = "fetching"
          /\ calls'[c].val = tokenState[1].access
          /\ refreshReqs' = refreshReqs
          /\ issued' = issued
          /\ tokenState' = tokenState
          /\ refreshPromise' = refreshPromise]_vars

\* A caller holds the access value of the first token ever issued, which is
\* still the fresh record: it can only have come from the cache.
C5_Witness ==
  /\ issued = 1
  /\ tokenState # NULL
  /\ now < tokenState[1].expires - REFRESH_BUFFER_MS
  /\ \E c \in Callers :
       calls[c].st = "fetching" /\ calls[c].val = tokenState[1].access

\* C6: a getToken call made when there is no token record fails with the
\* not-authenticated error, sends no request and starts no refresh.
C6_NoRecordFailsNotAuthenticated ==
  [][\A c \in Callers :
       (CallsGetToken(c) /\ tokenState = NULL)
       => /\ calls'[c].st = "err"
          /\ calls'[c].err = "not_authenticated"
          /\ refreshReqs' = refreshReqs
          /\ issued' = issued
          /\ refreshPromise' = refreshPromise
          /\ tokenState' = NULL]_vars

\* A caller was refused as not authenticated with no record: once before any
\* login, once after a record had been established and cleared.
C6_Witness ==
  /\ tokenState = NULL
  /\ issued >= 1
  /\ \E c \in Callers : calls[c].st = "err" /\ calls[c].err = "not_authenticated"
  /\ \E c \in Callers : calls[c].st = "idle"

\* C7: a refresh answered with a token payload replaces the token record:
\* access and expires from the payload, refresh the payload's refresh_token
\* when present and the previous refresh value otherwise.
C7_RefreshKeepsOldRefreshValue ==
  [][\A r \in refreshReqs :
       (RefreshSettles(r) /\ r.resp[1].type = "ok")
       => tokenState' =
            <<[access |-> r.resp[1].access_token,
               refresh |-> IF r.resp[1].refresh_token # 0
                           THEN r.resp[1].refresh_token ELSE r.refresh,
               expires |-> now + r.resp[1].expires_in * 1000]>>]_vars

\* C8: once a redirect URL whose state differs from the state generated for
\* the run has been pasted, the run has ended with the state-mismatch error
\* and is not exchanging a code.
C8_StateMismatchIsCsrfError ==
  (/\ kind = "ml"
   /\ login.url # NULL
   /\ login.url[1].type = "url"
   /\ login.url[1].state # login.state)
  => login.pc = "idle" /\ login.err = "csrf"

\* C9: every request a fetch client has pending can be ended by its timeout.
C9_PendingFetchHasTimeout ==
  \A c \in Callers :
    calls[c].st = "fetching"
    => ENABLED (BtgFetchTimeout(c) \/ RetryingFetchTimeout(c))

\* The error a fetch client raises for a terminal status s: btgFetch tells
\* the 401 apart by its message, the retrying clients raise their API error,
\* which carries the status.
ErrorForStatus(s) ==
  IF kind # "btg" THEN "api_error"
  ELSE IF s = 401 THEN "auth_required" ELSE "http_error"

\* C10: a request answered with a 4xx status other than 429 is not retried:
\* the call fails at once with the error for that status (a 401 as the
\* authentication failure) and the number of requests it has sent stays what
\* it was, one when that answer was the call's first.
C10_NoRetryAfterTerminal4xx ==
  [][\A c \in Callers :
       (calls[c].st = "fetching" /\ calls'[c].status \in {401, 403, 404})
       => /\ calls'[c].st = "err"
          /\ calls'[c].err = ErrorForStatus(calls'[c].status)
          /\ calls'[c].attempt = calls[c].attempt]_vars

\* C10 as stated: a call answered with a 4xx status other than 429 has sent
\* exactly one request.
C10_ExactlyOneRequest ==
  \A c \in Callers :
    calls[c].status \in {401, 403, 404}
    => /\ calls[c].st = "err"
       /\ calls[c].attempt = 1
       /\ calls[c].err = ErrorForStatus(calls[c].status)

\* One call of the retrying client failed on a 403 at its first attempt,
\* another on a 401 that answered its second attempt.
C10_Witness ==
  /\ kind = "ml"
  /\ \E c \in Callers :
       calls[c].st = "err" /\ calls[c].status = 403 /\ calls[c].attempt = 1
  /\ \E c \in Callers :
       calls[c].st = "err" /\ calls[c].status = 401 /\ calls[c].attempt = 2

\* C11: one call of fetchMercadoLivre or fetchMercadoPago sends at most 3
\* requests: an attempt answered with 429 or 5xx is followed by another
\* attempt when it was the first or the second and ends the call with that
\* error when it was the third; the wait after a failed attempt ends with
\* the next attempt; a successful attempt ends the call.
C11_AtMostThreeAttempts ==
  [][\A c \in Callers :
       kind \in {"ml", "mp"}
       => /\ calls'[c].attempt <= 3
          /\ (calls[c].st = "fetching" /\ calls'[c].status \in {429, 500})
             => /\ calls'[c].attempt = calls[c].attempt
                /\ calls'[c].st = (IF calls[c].attempt < 3 THEN "backoff" ELSE "err")
          /\ (calls[c].st = "backoff" /\ calls'[c] # calls[c])
             => /\ calls'[c].st = "fetching"
                /\ calls'[c].attempt = calls[c].attempt + 1
          /\ (calls[c].st = "fetching" /\ calls'[c].status = 200)
             => /\ calls'[c].st = "done"
                /\ calls'[c].attempt = calls[c].attempt]_vars

\* One call failed on a 5xx at its third attempt, another succeeded at its
\* second.
C11_Witness ==
  /\ kind = "ml"
  /\ \E c \in Callers :
       calls[c].st = "err" /\ calls[c].status = 500 /\ calls[c].attempt = 3
  /\ \E c \in Callers : calls[c].st = "done" /\ calls[c].attempt = 2

\* C12: a call whose 2xx response body failed the schema has failed after
\* exactly one request, with an error whose status is not that of a server
\* error (5xx).
C12_SchemaMismatchNotRetried ==
  \A c \in Callers :
    calls[c].err = "invalid_response"
    => /\ calls[c].st = "err"
       /\ calls[c].attempt = 1
       /\ calls[c].status \notin 500..599

\* C13: the error made from a 429 response has the Retry-After value of the
\* response as its retryAfter and asks for a delay of that many seconds;
\* without the header it has no retryAfter and asks for no delay of its own.
C13_RetryAfterIsTheHeader ==
  \A c \in Callers :
    (kind \in {"ml", "mp"} /\ calls[c].status = 429)
    => /\ calls[c].retryAfter = calls[c].hdr
       /\ calls[c].hintMs = calls[c].hdr * 1000

\* C14: in a device-code login where the polls are answered pending or
\* slow_down, a poll request is started only while less than expires_in has
\* elapsed since the loop began; the wait that ends at or after that moment
\* ends the run as timed out, an outcome other than the one an error response
\* gives; and a run that is still polling or waiting when the device code has
\* expired eventually terminates.
C14_ExpiredDeviceCodeTimesOut ==
  /\ [][kind = "btg" =>
          /\ (login.pc # "poll" /\ login'.pc = "poll") => now - login'.start < login'.timeoutMs
          /\ (login.pc = "sleep" /\ login' # login
                /\ now - login.start >= login.timeoutMs) =>
               /\ login'.pc = "idle"
               /\ login'.err = "timed_out"
               /\ login'.err # "oauth_failed"
               /\ login'.polls = login.polls]_vars
  /\ (kind = "btg" /\ login.pc \in {"poll", "sleep"}
        /\ ~(now - login.start < login.timeoutMs)) ~> login.pc = "idle"

C14_Witness ==
  /\ kind = "btg"
  /\ login.pc = "idle"
  /\ login.err = "timed_out"
  /\ login.polls >= 2
  /\ login.pendings = login.polls

\* The wait between two polls of the device-code loop ends.
DeviceWaitEnds == kind = "btg" /\ login.pc = "sleep" /\ login' # login

\* C15: in the polling loop a pending or slow_down answer is not an error;
\* when the wait after it ends, another poll is sent unless the device code
\* has expired by then (then the run ends as timed out, with no further poll).
\* Any other error response ends the run with the failure and no further
\* poll. A token payload ends the run: a complete one is returned as a token
\* with expires = now + expires_in * 1000, and then exactly one more poll was
\* sent than pending answers were received.
C15_PollingLoopOutcomes ==
  [][/\ (kind = "btg" /\ login.pc = "poll" /\ login' # login) =>
          /\ login'.polls = login.polls
          /\ login'.pc \in {"sleep", "idle"}
          /\ login'.pc = "sleep" =>
               login'.err = "none" /\ login'.pendings = login.pendings + 1
          /\ login'.pc = "idle" =>
               /\ login'.err \in {"ok", "oauth_failed"}
               /\ login'.pendings = login.pendings
          /\ login'.err = "ok" =>
               /\ login'.polls = login'.pendings + 1
               /\ tokenState' = <<[access |-> login'.resp[1].access_token,
                                   refresh |-> login'.resp[1].refresh_token,
                                   expires |-> now + login'.resp[1].expires_in * 1000]>>
          /\ login'.err = "oauth_failed" => tokenState' = tokenState
     /\ DeviceWaitEnds =>
          IF now - login.start < login.timeoutMs
          THEN login'.pc = "poll" /\ login'.polls = login.polls + 1
          ELSE /\ login'.pc = "idle" /\ login'.err = "timed_out"
               /\ login'.polls = login.polls]_vars

\* C15 as first stated: after a pending or slow_down answer another poll is
\* always sent once the polling interval has passed.
C15_PendingAlwaysPolledAgain ==
  [][DeviceWaitEnds => login'.pc = "poll" /\ login'.polls = login.polls + 1]_vars

C15_Witness ==
  /\ kind = "btg"
  /\ login.pc = "idle"
  /\ login.err = "ok"
  /\ login.pendings = 2
  /\ login.polls = 3
  /\ tokenState # NULL

\* C16: during one device-code login the polling interval never decreases,
\* whatever interval the server advised: it starts at the advised interval
\* (5 s when none is advised), no answer makes it smaller, and a pending
\* answer leaves it unchanged.
C16_PollIntervalNeverDecreases ==
  [][(kind = "btg" /\ login.pc \in {"poll", "sleep"}) =>
       /\ login.pollIntervalUs = InitialPollIntervalUs(login.interval)
            \/ login.pendings > 0
       /\ login'.pollIntervalUs >= login.pollIntervalUs]_vars

\* A download request of the report tool is answered with status s.
DownloadAnswered(c, s) ==
  /\ kind = "mp"
  /\ calls[c].st = "downloading"
  /\ calls'[c] # calls[c]
  /\ calls'[c].status = s
  /\ calls'[c].err # "network"

\* C17: in a report tool, while every download is answered 404 the loop goes
\* on to the next wait until 12 downloads were sent; the 12th 404 ends the
\* execution with a normal result (not an error) of status "timeout" whose
\* report_id is the file_name the generation request returned; a timeout
\* result never comes after fewer or more than 12 downloads.
C17_TwelveNotReadyGiveTimeout ==
  [][\A c \in ReportCallers :
       /\ DownloadAnswered(c, 404) =>
            /\ calls'[c].downloads = calls[c].downloads
            /\ IF calls[c].downloads < 12
               THEN calls'[c].st = "rwait" /\ calls'[c].result = "none"
               ELSE /\ calls'[c].st = "done"
                    /\ calls'[c].result = "timeout"
                    /\ calls'[c].err = "none"
                    /\ calls'[c].report_id = calls[c].file
       /\ calls'[c].result = "timeout" =>
            /\ calls'[c].downloads = 12
            /\ calls'[c].report_id = calls'[c].file
            /\ calls'[c].file # 0]_vars

C17_Witness ==
  \E c \in ReportCallers :
    /\ calls[c].st = "done"
    /\ calls[c].result = "timeout"
    /\ calls[c].downloads = 12
    /\ calls[c].report_id = 1

\* C18: a download answered with an error status other than 404, or failing
\* in transport, ends the polling loop at once: no further download is sent,
\* the result is not the timeout result, and the execution ends reporting
\* that failure (the API error with its status as the error result, any
\* other failure thrown).
C18_OtherDownloadFailureEndsLoop ==
  [][\A c \in ReportCallers :
       /\ \A s \in Statuses \ {200, 404} :
            DownloadAnswered(c, s) =>
              /\ calls'[c].st = "done"
              /\ calls'[c].result = "api_error"
              /\ calls'[c].err = "api_error"
              /\ calls'[c].downloads = calls[c].downloads
       /\ (kind = "mp" /\ calls[c].st = "downloading" /\ calls'[c].err = "network") =>
            /\ calls'[c].st = "err"
            /\ calls'[c].result = "thrown"
            /\ calls'[c].downloads = calls[c].downloads
       /\ (kind = "mp" /\ calls[c].st \in {"done", "err"}) =>
            calls'[c].downloads = 0]_vars

C18_Witness ==
  \E c \in ReportCallers :
    /\ calls[c].st = "done"
    /\ calls[c].result = "api_error"
    /\ calls[c].status = 500
    /\ calls[c].downloads = 2

\* C19: one execution of a report tool sends the report-generation request
\* at most once, whatever status answers it.
C19_OneGenerationRequest ==
  \A c \in ReportCallers : kind = "mp" => calls[c].attempt <= 1

RECURSIVE Pow(_, _)
Pow(b, n) == IF n = 0 THEN 1 ELSE b * Pow(b, n - 1)

\* C20: the wait that precedes the k-th download (k = 1..12), all earlier
\* downloads having been not-ready, is min(5000 * 1.5^(k-1), 30000) ms; a
\* download is sent only when a wait ends, so none before the first 5 s wait
\* and none while another is in flight; the waits never decrease and never
\* exceed 30 s.
C20_WaitBeforeKthDownload ==
  [][LET
       \* min(5000 * 1.5^(k-1), 30000) ms, in microseconds.
       WaitBeforeDownloadUs(k) ==
         IF 5000 * Pow(3, k - 1) >= 30000 * Pow(2, k - 1)
         THEN 30000 * 1000
         ELSE (5000 * 1000 * Pow(3, k - 1)) \div Pow(2, k - 1)
     IN
       \A c \in ReportCallers :
         /\ (kind = "mp" /\ calls'[c].downloads # calls[c].downloads
               /\ calls'[c].downloads # 0) =>
              /\ calls[c].st = "rwait"
              /\ calls'[c].st = "downloading"
              /\ calls'[c].downloads = calls[c].downloads + 1
              /\ calls'[c].downloads \in 1..12
              /\ calls[c].delayUs = WaitBeforeDownloadUs(calls'[c].downloads)
         /\ (kind = "mp" /\ calls[c].st \in {"rwait", "downloading"}) =>
              /\ calls'[c].delayUs >= calls[c].delayUs
              /\ calls'[c].delayUs <= 30000 * 1000
              /\ calls[c].delayUs >= 5000 * 1000]_vars

C20_Witness ==
  \E c \in ReportCallers :
    /\ calls[c].st = "downloading"
    /\ calls[c].downloads = 5
    /\ calls[c].delayUs = 25312500

\* C21: sanitizeValue returns ' followed by the value, the prefix added
\* exactly once, for every value that begins with = or @, with a tab or a
\* carriage return, or with + or - when the value is not a signed decimal
\* number; and sanitizeValue applied to its own result changes nothing.
C21_SanitizePrefixesOnceAndIsIdempotent ==
  LET
      \* The values C21 says are neutralized.
      NeedsNeutralizing(v) ==
        LET
            \* A signed decimal number: an optional sign, then digits, then possibly a
            \* point and possibly further digits, and nothing else.
            IsSignedDecimalNumber(t) ==
              \E i \in 0..1, j \in 1..Len(t) :
                /\ i < j
                /\ i = 1 => t[1] \in {"+", "-"}
                /\ \A k \in (i + 1)..j : t[k] \in Digits
                /\ \/ j = Len(t)
                   \/ t[j + 1] = "." /\ \A k \in (j + 2)..Len(t) : t[k] \in Digits
        IN
        /\ v # <<>>
        /\ \/ v[1] \in {"=", "@", "\t", "\r"}
           \/ v[1] \in {"+", "-"} /\ ~IsSignedDecimalNumber(v)
  IN
  (csv.fn = "sanitizeValue" /\ csv.out # NULL) =>
    /\ NeedsNeutralizing(csv.arg) => csv.out[1] = <<"'">> \o csv.arg
    /\ Len(csv.out) = 2 => csv.out[2] = csv.out[1]

C21_Witness ==
  /\ csv.fn = "sanitizeValue"
  /\ csv.arg = <<"-", "a">>
  /\ csv.out = << <<"'", "-", "a">>, <<"'", "-", "a">> >>

\* C22: a value that matches ^[+-]?\d+(\.\d+)?$ is returned by sanitizeValue
\* unchanged.
C22_SignedDecimalsUnchanged ==
  LET
      \* /^[+-]?\d+(\.\d+)?$/ : sign, digits, and a point only with digits after.
      MatchesStrictDecimal(v) ==
        LET u == Unsigned(v)
            n == PrefixLen(u, Digits)
            rest == From(u, n + 1)
        IN  /\ n >= 1
            /\ \/ rest = <<>>
               \/ rest[1] = "." /\ Len(rest) >= 2 /\ AllIn(Tail(rest), Digits)
  IN
  (csv.fn = "sanitizeValue" /\ csv.out # NULL /\ MatchesStrictDecimal(csv.arg)) =>
    csv.out[1] = csv.arg

C22_Witness ==
  /\ csv.fn = "sanitizeValue"
  /\ csv.arg = <<"-", "5", ".", "5">>
  /\ csv.out # NULL
  /\ csv.out[1] = csv.arg


\* C25: parseCSVLine splits a record at the commas outside quotes only: the
\* record of n fields gives n values, and a field wrapped in double quotes
\* gives one value, its content (trimmed of white space at the ends) without
\* the surrounding quotes, the commas inside it kept and each doubled quote
\* inside it a single quote.
C25_QuotedFieldsAreOneValue ==
  (csv.fn = "parseCSVLine" /\ csv.out # NULL) =>
    /\ Len(csv.out[1]) = Len(csv.src)
    /\ \A j \in 1..Len(csv.src) :
         csv.src[j].quoted => csv.out[1][j] = Trim(csv.src[j].content)

C25_Witness ==
  /\ csv.fn = "parseCSVLine"
  /\ csv.arg = <<"\"", "a", ",", "b", "\"", ",", "\"", "a", "\"", "\"", "b", "\"">>
  /\ csv.out = << << <<"a", ",", "b">>, <<"a", "\"", "b">> >> >>


\* The lines of the input that are not blank, in input order.
NonBlank(ls) == SelectSeq(ls, LAMBDA l : l.cells # <<>>)

DistinctNames(header) ==
  \A i, j \in 1..Len(header) : header[i].content = header[j].content => i = j

\* The value a row holds for column j of a line: the sanitized cell without
\* the white space at its ends, the empty string when the line has no cell j.
CellValue(l, j) ==
  IF j <= Len(l.cells) THEN sanitizeValue(Trim(l.cells[j].content)) ELSE <<>>

\* Row i of the output has one entry per header column, in header order,
\* holding the cell of that column.
RowMatchesLine(row, header, l) ==
  /\ Len(row) = Len(header)
  /\ \A j \in 1..Len(header) :
       row[j] = [key |-> header[j].content, value |-> CellValue(l, j)]

C27_RoundTripsCellValues ==
  (csv.fn = "parseCSVStream" /\ csv.out # NULL /\ DistinctNames(csv.src.header)) =>
    LET ls == NonBlank(csv.src.lines)
        h == csv.src.header
    IN  \A i \in 1..Len(ls) :
          Len(ls[i].cells) = Len(h) =>
            /\ i <= Len(csv.out[1])
            /\ \A j \in 1..Len(h) :
                 /\ HasKey(csv.out[1][i], h[j].content)
                 /\ RowGet(csv.out[1][i], h[j].content)
                      \in {ls[i].cells[j].content, <<"'">> \o ls[i].cells[j].content}

\* The index of the column called name in the header; 0 when there is none.
ColumnOf(header, name) ==
  IF \E j \in 1..Len(header) : header[j].content = name
  THEN CHOOSE j \in 1..Len(header) : header[j].content = name
  ELSE 0

RECURSIVE Sum(_)
Sum(xs) == IF xs = <<>> THEN 0 ELSE Head(xs) + Sum(Tail(xs))

\* The sum over the lines of what F makes of the parsed amount of column j.
SumOver(ls, j, F(_)) ==
  LET
      \* The parsed amount of column j of a line: NaN for a cell that does not
      \* parse, 0 for a cell that is missing or empty and for a column the header
      \* does not have (j = 0).
      ParsedAmount(l, col) ==
        IF col \in 1..Len(l.cells) /\ l.cells[col].content # <<>>
        THEN ParseFloat(l.cells[col].content) ELSE Num(0)
  IN
  Sum([i \in 1..Len(ls) |-> F(ParsedAmount(ls[i], j))])

\* The absolute value of a parsed amount, zero for one that did not parse.
AbsOrZero(x) == IF x.nan THEN 0 ELSE Abs(x.v)

\* C23: totalInflow is the sum over the rows of the absolute value of the
\* parsed NET_CREDIT_AMOUNT and totalOutflow the sum of the absolute value of
\* the parsed NET_DEBIT_AMOUNT, whatever the sign of the amounts, a cell that
\* does not parse counting as zero.
C23_TotalsAreSumsOfAbsoluteValues ==
  (csv.fn = "aggregateCashflow" /\ csv.out # NULL) =>
    LET ls == NonBlank(csv.src.lines)
        h == csv.src.header
    IN  /\ csv.out[1].totalInflow = SumOver(ls, ColumnOf(h, NET_CREDIT_AMOUNT), AbsOrZero)
        /\ csv.out[1].totalOutflow = SumOver(ls, ColumnOf(h, NET_DEBIT_AMOUNT), AbsOrZero)

\* C24: aggregateCashflow returns for every input: transactionCount is the
\* number of non-blank data lines, whether or not the amounts of a line
\* parse, and an amount that does not parse adds nothing to either total (the
\* totals are those of the amounts that parse: the positive credits and the
\* debits of either sign).
C24_EveryRowCountedOnce ==
  (csv.fn = "aggregateCashflow" /\ csv.out # NULL) =>
    LET ls == NonBlank(csv.src.lines)
        h == csv.src.header
    IN  /\ csv.out[1].transactionCount = Len(ls)
        /\ csv.out[1].totalInflow = SumOver(ls, ColumnOf(h, NET_CREDIT_AMOUNT), Adds)
        /\ csv.out[1].totalOutflow = SumOver(ls, ColumnOf(h, NET_DEBIT_AMOUNT), AbsOrZero)

C24_Witness ==
  /\ csv.fn = "aggregateCashflow"
  /\ Len(csv.src.header) = 2
  /\ csv.src.lines = <<RecordLine(<<Plain(<<"a", "b", "c">>), Plain(<<"0">>)>>),
                       RecordLine(<<Plain(<<"1", "0", "0">>), Plain(<<"x", "y", "z">>)>>)>>
  /\ csv.out = <<[totalInflow |-> 10000, totalOutflow |-> 0, transactionCount |-> 2]>>

\* C28: in every login attempt of either flow the code_challenge sent in the
\* initial request is base64url(SHA256(verifier)) of the verifier generated
\* for that attempt; every token-endpoint request of the attempt carries that
\* verifier as its code_verifier; and the verifier of an attempt differs from
\* the verifiers of all earlier attempts.
C28_ChallengeAndVerifierOfTheAttempt ==
  [][LET
       \* A token-endpoint request of the login is sent: a poll of the device-code
       \* flow, the code exchange of the authorization-code flow.
       TokenRequestSent ==
         /\ login'.pc \in {"poll", "exchange"}
         /\ login.pc # login'.pc
       \* A login attempt begins: its verifier is generated.
       AttemptBegins == login'.nonces # login.nonces
     IN
       /\ AttemptBegins =>
            /\ login'.challenge = S256(login'.verifier)
            /\ login'.verifier \notin 1..login.nonces
            /\ login.verifier # 0 => login.verifier \in 1..login.nonces
            /\ login'.verifier # login.verifier
       /\ (login.pc # "idle" /\ ~AttemptBegins) =>
            /\ login'.verifier = login.verifier
            /\ login'.challenge = login.challenge
       /\ TokenRequestSent =>
            /\ login'.sentVerifier = login'.verifier
            /\ login'.challenge = S256(login'.sentVerifier)]_vars

C28_Witness ==
  /\ login.nonces = 2
  /\ login.pc \in {"poll", "exchange"}
  /\ login.verifier = 2
  /\ login.sentVerifier = 2
  /\ login.challenge = S256(2)

C30_MissingClientIdFailsBeforeAnyRequest ==
  [][LET
       \* The requests sent to the token endpoint and not yet settled.
       RefreshRequestsSent == {[pid |-> r.pid, refresh |-> r.refresh] : r \in refreshReqs}
       \* getToken gets as far as starting a refresh.
       RefreshNeeded(c) ==
         /\ CallsGetToken(c)
         /\ TokenNeedsRefresh
         /\ tokenState[1].refresh # 0
         /\ refreshPromise = NULL
       \* A device-code login run is started.
       LoginRunCalled == kind = "btg" /\ login.pc = "idle" /\ login' # login
     IN
       (kind = "btg" /\ ~clientId) =>
         /\ LoginRunCalled =>
              /\ login'.pc = "idle"
              /\ login'.err = "config"
              /\ login'.challenge = 0
         /\ login'.pc = "device" => login.pc = "device"
         /\ \A c \in Callers :
              RefreshNeeded(c) => calls'[c].st = "err" /\ calls'[c].err = "config"
         /\ RefreshRequestsSent' \subseteq RefreshRequestsSent]_vars

\* The authorization-code run whose openUrl failed, completed with a token.
MlCompletedWithoutBrowser ==
  /\ kind = "ml"
  /\ ~login.opened
  /\ login.pc = "idle"
  /\ login.err = "ok"
  /\ tokenState # NULL

C30_Witness ==
  /\ kind = "btg"
  /\ ~clientId
  /\ login.err = "config"
  /\ refreshReqs = {}
  /\ \E c \in Callers : calls[c].st = "err" /\ calls[c].err = "config"


\* C31: every token record installed, by a device-code success, by a code
\* exchange or by a refresh, has expires strictly later than the time it was
\* created.
C31_ExpiresLaterThanCreation ==
  [][(tokenState' # tokenState /\ tokenState' # NULL) =>
       ExpiresOf(tokenState') > now']_vars


\* C32: btgFetch does not fail its call on the first 429: the call whose
\* first request was answered 429 waits for its delayed retry.
C32_First429IsRetried ==
  [][\A c \in Callers :
       (/\ kind = "btg"
        /\ calls[c].st = "fetching"
        /\ calls[c].attempt = 1
        /\ calls'[c].status = 429)
       => calls'[c].st = "backoff"]_vars


\* C33: the time a report tool has waited in its polling loop when it gives
\* the timeout result is at most 60 s.
C33_TimeoutWithin60Seconds ==
  \A c \in ReportCallers :
    (kind = "mp" /\ calls[c].result = "timeout") => calls[c].waitedUs <= 60 * 1000 * 1000


\* C34: when a btgFetch request that carries an access token other than the
\* one of the current token record is answered (with a 401 or anything else),
\* the current record stays as it is.
C34_Stale401KeepsNewerRecord ==
  [][\A c \in Callers :
       (/\ kind = "btg"
        /\ calls[c].st = "fetching"
        /\ calls'[c].st # "fetching"
        /\ tokenState # NULL
        /\ calls[c].val # AccessOf(tokenState))
       => tokenState' = tokenState]_vars


\* C35: a token record installed by a login while a refresh request was in
\* flight (the current record is not the one whose refresh value the request
\* carries) is still the current record after that refresh settles, whether
\* the refresh succeeded or failed.
C35_RefreshKeepsLoggedInRecord ==
  [][\A r \in refreshReqs :
       (/\ RefreshSettles(r)
        /\ tokenState # NULL
        /\ RefreshOf(tokenState) # r.refresh)
       => tokenState' = tokenState]_vars


\* C36: every getToken call that awaits a refresh eventually returns a token
\* or fails, even when the token endpoint never answers.
C36_AwaitedRefreshEventuallySettles ==
  \A c \in Callers :
    (calls[c].st = "waiting") ~> (calls[c].st \in {"fetching", "err"})


\* C37: when BTG_CLIENT_ID is absent as BTG getToken gets as far as starting
\* a refresh, the call fails with the configuration error and the token
\* record, its refresh value included, is left as it was.
C37_MissingClientIdKeepsRecord ==
  [][\A c \in Callers :
       (/\ kind = "btg"
        /\ ~clientId
        /\ CallsGetToken(c)
        /\ TokenNeedsRefresh
        /\ tokenState[1].refresh # 0
        /\ refreshPromise = NULL)
       => /\ calls'[c].err = "config"
          /\ tokenState' = tokenState]_vars


\* C38: in the state a successful refresh leaves, getToken finds the
\* refreshed record fresh: it returns the refreshed access token and sends no
\* further refresh request.
C38_RefreshedTokenIsFresh ==
  [][\A r \in refreshReqs :
       (/\ RefreshSettles(r)
        /\ tokenState' # NULL
        /\ AccessOf(tokenState') = r.resp[1].access_token
        /\ r.resp[1].type = "ok")
       => (IF kind = "btg" THEN BtgTokenFresh ELSE MlTokenFresh)']_vars


\* C39 as first stated: no value of a row yielded by parseCSVStream begins
\* with =, @, a tab or a carriage return, and a yielded value that begins
\* with + or - matches ^[+-]?\d+(\.\d+)?$ (a point only with digits after).
C39_SignedValuesAreStrictDecimals ==
  (csv.fn = "parseCSVStream" /\ csv.out # NULL) =>
    \A i \in 1..Len(csv.out[1]) : \A j \in 1..Len(csv.out[1][i]) :
      LET v == csv.out[1][i][j].value
          StrictDecimal ==
            \E n \in 2..Len(v) :
              /\ \A k \in 2..n : v[k] \in Digits
              /\ \/ n = Len(v)
                 \/ /\ v[n + 1] = "."
                    /\ n + 2 <= Len(v)
                    /\ \A k \in (n + 2)..Len(v) : v[k] \in Digits
      IN  v # <<>> =>
            /\ v[1] \notin {"=", "@", "\t", "\r"}
            /\ v[1] \in {"+", "-"} => StrictDecimal

\* C39: no value of a row yielded by parseCSVStream begins with =, @, a tab
\* or a carriage return, and a yielded value that begins with + or - is a
\* sign, digits, and possibly a point and possibly further digits
\* (^[+-]?\d+\.?\d*$); cells with white space at their start and quoted cells
\* included.
C39_YieldedValuesAreNeutral ==
  (csv.fn = "parseCSVStream" /\ csv.out # NULL) =>
    \A i \in 1..Len(csv.out[1]) : \A j \in 1..Len(csv.out[1][i]) :
      LET v == csv.out[1][i][j].value
          SignedNumber ==
            \E n \in 2..Len(v) :
              /\ \A k \in 2..n : v[k] \in Digits
              /\ \/ n = Len(v)
                 \/ /\ v[n + 1] = "."
                    /\ \A k \in (n + 2)..Len(v) : v[k] \in Digits
      IN  v # <<>> =>
            /\ v[1] \notin {"=", "@", "\t", "\r"}
            /\ v[1] \in {"+", "-"} => SignedNumber

C39_Witness ==
  /\ csv.fn = "parseCSVStream"
  /\ csv.src.header = <<Plain(<<"a">>), Plain(<<"b">>)>>
  /\ csv.src.lines = <<RecordLine(<<[content |-> <<" ", "=", "a">>, quoted |-> TRUE],
                                    Plain(<<"-", "5", ".">>)>>),
                       RecordLine(<<Plain(<<"-", "5", ".", "5">>), Plain(<<"\t", "@">>)>>)>>
  /\ csv.out = << << <<[key |-> <<"a">>, value |-> <<"'", "=", "a">>],
                       [key |-> <<"b">>, value |-> <<"-", "5", ".">>]>>,
                     <<[key |-> <<"a">>, value |-> <<"-", "5", ".", "5">>],
                       [key |-> <<"b">>, value |-> <<"'", "@">>]>> >> >>


\* What the pagination loop does keep to, for every sequence of responses:
\* it terminates; the k-th page fetch asks for offset 100 * (k - 1); there are
\* at most 10 page fetches; every page adds its results to the count, which
\* stays within 1000 as long as no page had more than 100 results; the loop
\* stops at the first page that has fewer than 100 results or for which
\* offset + 100 >= paging.total, and goes on to the next offset otherwise
\* (until the tenth page).
PaginationLoopIsBounded ==
  /\ [][\A c \in ReportCallers :
          (kind = "mp" /\ calls[c].st = "paging" /\ calls'[c] # calls[c]) =>
            /\ calls[c].offset = (calls[c].pages - 1) * 100
            /\ calls[c].pages \in 1..10
            /\ calls'[c].pages \in {calls[c].pages, calls[c].pages + 1}
            /\ calls'[c].st \in {"paging", "done"}
            /\ calls'[c].result = "data" =>
                 /\ calls'[c].st = "done"
                 /\ calls'[c].pages = calls[c].pages
                 /\ calls'[c].counted = calls[c].counted + calls'[c].pageLen
                 /\ \/ calls'[c].pageLen < 100
                    \/ calls[c].offset + 100 >= calls'[c].pageTotal
                    \/ calls[c].pages = 10
            /\ calls'[c].st = "paging" =>
                 /\ calls'[c].pages = calls[c].pages + 1
                 /\ calls'[c].offset = calls[c].offset + 100
                 /\ calls'[c].counted = calls[c].counted + calls'[c].pageLen
                 /\ calls'[c].pageLen >= 100
                 /\ calls[c].offset + 100 < calls'[c].pageTotal
            /\ ~calls'[c].overlong => calls'[c].counted <= 1000]_vars
  /\ \A c \in ReportCallers : (calls[c].st = "paging") ~> (calls[c].st = "done")

\* C40: the pagination loop terminates for every sequence of responses: it
\* requests the offsets 0, 100, 200, ... in increasing order, makes at most
\* 10 page fetches and counts at most 1000 payments.
C40_AtMost1000PaymentsCounted ==
  /\ [][\A c \in ReportCallers :
          (kind = "mp" /\ calls[c].st = "paging" /\ calls'[c] # calls[c]) =>
            /\ calls[c].offset = (calls[c].pages - 1) * 100
            /\ calls[c].pages \in 1..10
            /\ calls'[c].counted <= 1000]_vars
  /\ \A c \in ReportCallers : (calls[c].st = "paging") ~> (calls[c].st = "done")

====
